---- MODULE Spec2Model ----
(***************************************************************************)
(* Client-side orchestration of the DASO queue prototype:                  *)
(*   - StaffPage.fetchQueue (the queue snapshot reducer) and the           *)
(*     CurrentCustomer service-session controller;                         *)
(*   - WalkInForm, the booking wizard, with its VoiceInput.                *)
(* Each component has its own specification over the shared variables.     *)
(***************************************************************************)
EXTENDS Integers, Sequences, FiniteSets, TLC

\* ------------------------------------------------------------------ bounds
MaxQueue == 3        \* longest snapshot drawn as reducer input
MaxCustomers == 2    \* customers in the service-session model's server queue
MaxFetch == 2        \* queue refreshes in flight at once
MaxActionReqs == 2   \* staff action requests in flight at once
MaxTyped == 1        \* characters one edit of the mobile field adds
MaxBookReqs == 2     \* booking requests in flight at once
MaxBookings == 2     \* booking requests one wizard issues in all
MaxLoads == 1        \* service catalog requests in flight at once
NumSlots == 2        \* time slots generated per date
MaxTranscript == 3   \* longest transcript enumerated in full
MaxLookups == 3      \* lookups one check-in screen sends in all
MaxLookupReqs == 2   \* lookups in flight at once
MaxTokens == 2       \* token numbers a positive lookup result may carry
MaxCompletions == 3  \* completions one kiosk page sees
MaxPending == 2      \* completions on their way at once
MaxPredicted == 4    \* predicted minutes of the customer the bar is drawn for

\* ------------------------------------------------------- program constants
CounterNumber == 1   \* StaffPage passes counterNumber={1}
StaffId == 1         \* StaffPage passes staffId={1}
MobileLen == 10      \* slice(0, 10) and mobile.length === 10

VARIABLES
    srvQueue,         \* the external service's queue (data.queue of a response)
    fetches,          \* getQueueStatus() calls in flight, in issue order
    queue,            \* StaffPage.queue: the remaining queue
    currentCustomer,  \* StaffPage.currentCustomer
    lastData,         \* data.queue of the response fetchQueue applied last
    cc_loading,       \* CurrentCustomer.loading
    actionReqs,       \* updateStaffAction() calls in flight, in issue order
    lastOp,           \* the StaffPage / CurrentCustomer handler that ran last
    mode,             \* WalkInForm prop mode
    mounted,          \* the WalkInForm instance is rendered by its caller
    step,             \* WalkInForm.step
    mobile,           \* WalkInForm.mobile, a string as a sequence of characters
    typedValue,       \* e.target.value of the mobile field's last change event,
                      \* empty once the field is no longer rendered
    selectedService,  \* WalkInForm.selectedService
    isListening,      \* WalkInForm.isListening
    services,         \* WalkInForm.services
    loading,          \* WalkInForm.loading
    error,            \* WalkInForm.error
    selectedDate,     \* WalkInForm.selectedDate
    selectedTimeSlot, \* WalkInForm.selectedTimeSlot
    availableSlots,   \* WalkInForm.availableSlots
    loadsInFlight,    \* getServiceTypes() calls in flight
    bookReqs,         \* bookSlot() calls in flight, in issue order
    bookIssued,       \* bookSlot() calls made by this instance so far
    stoppedRecs,      \* recognitions stopped by an effect cleanup that have not
                      \* ended yet, each as the services its handler closed over
    completions,      \* the results handed to onComplete, in order
    zone,             \* the time zone of the kiosk's clock
    ck_mounted,       \* the CheckInScreen instance is rendered by its caller
    status,           \* CheckInScreen.status
    message,          \* CheckInScreen.message
    details,          \* CheckInScreen.details
    scanTimer,        \* the timeout of the mount effect is armed
    lookups,          \* simulateProximity() calls in flight, in issue order
    lookupsIssued,    \* simulateProximity() calls made by this instance so far
    doneTimers,       \* results whose onComplete timeout is armed, in order
    ck_completions,   \* the results CheckInScreen handed to onComplete
    resetPending,     \* KioskPage's reset timeout of an earlier completion is armed
    \* --- the polling views: StaffPage, AdminPage, AppointmentCalendar
    sp_mounted,       \* the StaffPage instance is rendered by the router
    sp_interval,      \* StaffPage's interval: "unset", "armed" or "cleared"
    overtaken,        \* how many calls in flight were made before one already answered and shown
    stale,            \* the response shown was requested before one shown earlier
    elapsedTime,      \* CurrentCustomer.elapsedTime: zero, or computed from an entry's start
    cc_timer,         \* the entry whose start the live interval of CurrentCustomer captured
    ad_mounted,       \* the AdminPage instance is rendered by the router
    ad_interval,      \* AdminPage's interval: "unset", "armed" or "cleared"
    ad_data,          \* AdminPage.data
    ad_loading,       \* AdminPage.loading
    ad_fetches,       \* getAnalytics() responses in flight, in request order
    srvAnalytics,     \* the analytics report the service holds
    ac_mounted,       \* the AppointmentCalendar instance is rendered
    ac_interval,      \* the interval of its latest effect: "unset", "armed", "cleared"
    ac_date,          \* AppointmentCalendar.date, as a day number
    appointments,     \* AppointmentCalendar.appointments
    ac_loading,       \* AppointmentCalendar.loading
    ac_captured,      \* appointments as the closure of the latest effect sees it
    ac_fetches,       \* getAppointments() responses in flight, in request order
    srvAppointments,  \* the days for which the service holds an appointment
    \* --- PerformanceBar
    actualTime,       \* the actualTime prop, in fifths of a minute
    predictedTime,    \* the predictedTime prop, in minutes
    colorClass,       \* the colour class of the bar as last rendered
    \* --- KioskPage
    view,             \* KioskPage.view
    successData,      \* KioskPage.successData: Null or the result of a completion
    resetTimers,      \* the armed 10 s timeouts, each named by its completion
    pendingCompletes, \* booking responses and check-in delays that will call onComplete
    completed         \* how many times handleComplete has run

wizVars == <<mode, mounted, step, mobile, typedValue, selectedService, isListening, services,
             loading, error, selectedDate, selectedTimeSlot, availableSlots,
             loadsInFlight, bookReqs, bookIssued, stoppedRecs, completions, zone>>

staffVars == <<srvQueue, fetches, queue, currentCustomer, lastData,
               cc_loading, actionReqs, lastOp>>

checkInVars == <<ck_mounted, status, message, details, scanTimer, lookups,
                 lookupsIssued, doneTimers, ck_completions, resetPending>>

adminVars == <<ad_mounted, ad_interval, ad_data, ad_loading, ad_fetches, srvAnalytics>>

calendarVars == <<ac_mounted, ac_interval, ac_date, appointments, ac_loading, ac_captured,
                  ac_fetches, srvAppointments>>

staffPollVars == <<sp_mounted, sp_interval, overtaken, stale, elapsedTime, cc_timer>>

pollVars == <<staffPollVars, adminVars, calendarVars>>

barVars == <<actualTime, predictedTime, colorClass>>

kioskVars == <<view, successData, resetTimers, pendingCompletes, completed>>

restVars == <<barVars, kioskVars>>

vars == <<staffVars, wizVars, checkInVars, pollVars, restVars>>

\* ----------------------------------------------------------- queue entries
Statuses == {"waiting", "checked_in", "in_progress", "completed", "no_show"}
Null == 0            \* null / undefined field (falsy)
Undefined == -1      \* the id read through ?. from a missing entry

\* No entry: what Array.find returns when nothing matches, and null.
NoCustomer == [id |-> Undefined, status |-> "none",
               assigned_counter |-> Null, start_time |-> Null]
NoData == <<NoCustomer>>   \* no response applied yet

Entry(i, s, c, t) == [id |-> i, status |-> s, assigned_counter |-> c, start_time |-> t]

\* The positions of arr whose element has one of the given statuses.
Positions(arr, statuses) == {i \in 1..Len(arr) : arr[i].status \in statuses}

\* Array.prototype.find over the positions that pass its test: the element at
\* the first of them, or undefined.
Find(arr, hits) ==
    IF hits = {}
    THEN NoCustomer
    ELSE arr[CHOOSE i \in hits : \A j \in hits : i <= j]

\* a || b on ids: b when a is falsy (undefined or 0).
IdOr(a, b) == IF a # Undefined /\ a # 0 THEN a ELSE b

IsOpen(q) == q.status = "waiting" \/ q.status = "checked_in"

\* myCustomer without the test on the counter.
myCustomer_AnyCounter(data, counter) ==
    Find(data, Positions(data, {"in_progress"}))

\* fetchQueue, lines 20-22.
myCustomer(data, counter) ==
    Find(data, {i \in Positions(data, {"in_progress"}) :
                    data[i].assigned_counter = counter})

\* nextCustomer looking at waiting entries only.
nextCustomer_WaitingOnly(data, counter) ==
    IF myCustomer(data, counter) = NoCustomer
    THEN Find(data, Positions(data, {"waiting"}))
    ELSE NoCustomer

\* fetchQueue, lines 25-27.
nextCustomer(data, counter) ==
    IF myCustomer(data, counter) = NoCustomer
    THEN Find(data, Positions(data, {"waiting", "checked_in"}))
    ELSE NoCustomer

\* fetchQueue, line 29: myCustomer || nextCustomer.
current(data, counter) ==
    IF myCustomer(data, counter) # NoCustomer
    THEN myCustomer(data, counter)
    ELSE nextCustomer(data, counter)

\* remainingQueue keeping every entry that is not finished.
remainingQueue_KeepsInProgress(data, counter) ==
    LET excl == IdOr(myCustomer(data, counter).id, nextCustomer(data, counter).id)
        keep(q) == q.id # excl /\ q.status \notin {"completed", "no_show"}
    IN  SelectSeq(data, keep)

\* fetchQueue, lines 32-35.
remainingQueue(data, counter) ==
    LET excl == IdOr(myCustomer(data, counter).id, nextCustomer(data, counter).id)
        keep(q) == q.id # excl /\ IsOpen(q)
    IN  SelectSeq(data, keep)

\* fetchQueue, lines 13-43, from the arrival of the response on: the state the
\* two setters leave.
deriveView(data, counter) ==
    [current |-> current(data, counter), remaining |-> remainingQueue(data, counter)]

\* ---------------------------------------------------------------- StaffPage
Append2(seq, x) == seq \o <<x>>
RemoveAt(seq, i) == SubSeq(seq, 1, i - 1) \o SubSeq(seq, i + 1, Len(seq))

\* elapsedTime is 0 (line 7 and line 21), or the minutes from the start of
\* the entry with the given id to the moment of the interval's last tick
\* (lines 14-18).
Zero == <<>>
ElapsedSince(id) == <<id>>

\* The interval of the elapsed-time effect: none, or the one whose callback
\* captured the start of the entry with the given id (lines 14-19).
NoTimer == <<>>
TimerOf(id) == <<id>>

\* The elapsed-time effect of CurrentCustomer, lines 10-24, run for a new
\* customer prop after the cleanup of the previous run cleared its interval:
\* a started customer gets a new interval and elapsedTime is left as it was;
\* otherwise elapsedTime is set to 0.
ElapsedEffect(customer, elapsed) ==
    IF customer.start_time # Null
    THEN [elapsedTime |-> elapsed, timer |-> TimerOf(customer.id)]
    ELSE [elapsedTime |-> Zero, timer |-> NoTimer]

\* A setter that also updates an instance that was taken down.
SetSp_Always(old, new) == new

\* A state setter of StaffPage: React drops the update of an unmounted
\* component.
SetSp(old, new) == IF sp_mounted THEN new ELSE old

\* fetchQueue is called (mount, interval tick, refresh button): the request
\* is answered from the service's queue as it is now.
FetchQueueCall ==
    /\ UNCHANGED <<wizVars, checkInVars, pollVars, restVars>>
    /\ lastOp' = "FetchQueueCall"
    /\ Len(fetches) < MaxFetch
    /\ fetches' = Append2(fetches, srvQueue)
    /\ UNCHANGED <<srvQueue, queue, currentCustomer, lastData, cc_loading, actionReqs>>

\* A response that is dropped when the response of a later call was shown.
FetchQueueOk_DropsOvertaken(i) ==
    /\ UNCHANGED <<wizVars, checkInVars, restVars, sp_mounted, sp_interval, stale, adminVars, calendarVars>>
    /\ lastOp' = "FetchQueueOk"
    /\ i \in 1..Len(fetches)
    /\ overtaken' = IF i <= overtaken THEN overtaken - 1 ELSE SetSp(overtaken, i - 1)
    /\ currentCustomer' = IF i <= overtaken THEN currentCustomer
                          ELSE SetSp(currentCustomer, deriveView(fetches[i], CounterNumber).current)
    /\ queue' = IF i <= overtaken THEN queue
                ELSE SetSp(queue, deriveView(fetches[i], CounterNumber).remaining)
    /\ lastData' = IF i <= overtaken THEN lastData ELSE SetSp(lastData, fetches[i])
    /\ elapsedTime' = SetSp(elapsedTime, ElapsedEffect(currentCustomer', elapsedTime).elapsedTime)
    /\ cc_timer' = SetSp(cc_timer, ElapsedEffect(currentCustomer', elapsedTime).timer)
    /\ fetches' = RemoveAt(fetches, i)
    /\ UNCHANGED <<srvQueue, cc_loading, actionReqs>>

\* The response of call i arrives: lines 16-37.
FetchQueueOk(i) ==
    /\ UNCHANGED <<wizVars, checkInVars, restVars, sp_mounted, sp_interval, adminVars, calendarVars>>
    /\ lastOp' = "FetchQueueOk"
    /\ i \in 1..Len(fetches)
    /\ overtaken' = IF i <= overtaken THEN overtaken - 1 ELSE SetSp(overtaken, i - 1)
    /\ stale' = SetSp(stale, i <= overtaken)
    /\ currentCustomer' = SetSp(currentCustomer, deriveView(fetches[i], CounterNumber).current)
    /\ queue' = SetSp(queue, deriveView(fetches[i], CounterNumber).remaining)
    /\ lastData' = SetSp(lastData, fetches[i])
    /\ elapsedTime' = SetSp(elapsedTime, ElapsedEffect(currentCustomer', elapsedTime).elapsedTime)
    /\ cc_timer' = SetSp(cc_timer, ElapsedEffect(currentCustomer', elapsedTime).timer)
    /\ fetches' = RemoveAt(fetches, i)
    /\ UNCHANGED <<srvQueue, cc_loading, actionReqs>>

\* A failed call that empties the view and stops the polling.
FetchQueueFail_Resets(i) ==
    /\ UNCHANGED <<wizVars, checkInVars, restVars>>
    /\ lastOp' = "FetchQueueFail"
    /\ i \in 1..Len(fetches)
    /\ fetches' = RemoveAt(fetches, i)
    /\ currentCustomer' = NoCustomer
    /\ queue' = <<>>
    /\ sp_interval' = "cleared"
    /\ overtaken' = IF i <= overtaken THEN overtaken - 1 ELSE overtaken
    /\ UNCHANGED <<srvQueue, lastData, cc_loading, actionReqs>>
    /\ UNCHANGED <<sp_mounted, stale, elapsedTime, cc_timer, adminVars, calendarVars>>

\* Call i throws: lines 38-39.
FetchQueueFail(i) ==
    /\ UNCHANGED <<wizVars, checkInVars, restVars, sp_mounted, sp_interval, stale, elapsedTime, cc_timer,
                   adminVars, calendarVars>>
    /\ lastOp' = "FetchQueueFail"
    /\ i \in 1..Len(fetches)
    /\ overtaken' = IF i <= overtaken THEN overtaken - 1 ELSE overtaken
    /\ fetches' = RemoveAt(fetches, i)
    /\ UNCHANGED <<srvQueue, queue, currentCustomer, lastData, cc_loading, actionReqs>>

\* The mount effect, lines 45-50: fetchQueue() at once, then the interval.
StaffMountEffect ==
    /\ UNCHANGED <<wizVars, checkInVars, restVars>>
    /\ sp_mounted /\ sp_interval = "unset"
    /\ lastOp' = "StaffMountEffect"
    /\ fetches' = Append2(fetches, srvQueue)
    /\ sp_interval' = "armed"
    /\ UNCHANGED <<srvQueue, queue, currentCustomer, lastData, cc_loading, actionReqs>>
    /\ UNCHANGED <<sp_mounted, overtaken, stale, elapsedTime, cc_timer, adminVars, calendarVars>>

\* The interval fires, line 47: it calls fetchQueue whether or not the calls
\* made before it were answered.
PollTick ==
    /\ sp_interval = "armed"
    /\ FetchQueueCall

\* The refresh button of the header, lines 77-82.
RefreshClick ==
    /\ sp_mounted /\ sp_interval = "armed"
    /\ FetchQueueCall

\* clearInterval of the platform: it cancels the timer it is given, and does
\* nothing for one that was never set or is already cancelled.
clearInterval(timer) == IF timer = "armed" THEN "cleared" ELSE timer

\* A teardown that leaves the interval running.
StaffUnmount_LeavesInterval ==
    /\ UNCHANGED <<wizVars, checkInVars, restVars>>
    /\ sp_mounted /\ sp_interval = "armed"
    /\ lastOp' = "StaffUnmount"
    /\ sp_mounted' = FALSE
    /\ UNCHANGED <<srvQueue, fetches, queue, currentCustomer, lastData, cc_loading, actionReqs>>
    /\ UNCHANGED <<sp_interval, overtaken, stale, elapsedTime, cc_timer, adminVars, calendarVars>>

\* The cleanup of the mount effect, line 48, run when the router takes the
\* page down.
StaffUnmount ==
    /\ UNCHANGED <<wizVars, checkInVars, restVars>>
    /\ sp_mounted /\ sp_interval = "armed"
    /\ lastOp' = "StaffUnmount"
    /\ sp_mounted' = FALSE
    /\ sp_interval' = clearInterval(sp_interval)
    /\ cc_timer' = NoTimer
    /\ UNCHANGED <<srvQueue, fetches, queue, currentCustomer, lastData, cc_loading, actionReqs>>
    /\ UNCHANGED <<overtaken, stale, elapsedTime, adminVars, calendarVars>>

\* The interval of the elapsed-time effect fires, lines 16-19.
ElapsedTick ==
    /\ UNCHANGED <<staffVars, wizVars, checkInVars, restVars, adminVars, calendarVars>>
    /\ cc_timer # NoTimer
    /\ elapsedTime' = ElapsedSince(cc_timer[1])
    /\ UNCHANGED <<sp_mounted, sp_interval, overtaken, stale, cc_timer>>

\* The queues the service holds while a page polls it.
PollQueues == {<<>>,
               <<Entry(1, "in_progress", CounterNumber, 1), Entry(2, "waiting", Null, Null)>>,
               <<Entry(2, "in_progress", CounterNumber, 1)>>}

\* Kiosks and the other counters change the queue the service holds.
QueueChange ==
    /\ UNCHANGED <<wizVars, checkInVars, pollVars, restVars>>
    /\ lastOp' = "QueueChange"
    /\ srvQueue' \in PollQueues \ {srvQueue}
    /\ UNCHANGED <<fetches, queue, currentCustomer, lastData, cc_loading, actionReqs>>

\* ---------------------------------------------------------- CurrentCustomer
Actions == {"start", "complete", "no_show"}

\* Line 52.
isStarted(customer) == customer.start_time # Null

\* The elapsed time CurrentCustomer displays, line 66.
shownElapsed(customer, elapsed) == IF isStarted(customer) THEN elapsed ELSE Zero

\* Rendered with Complete also offered before the service is started.
Rendered_CompleteUnstarted(customer) ==
    IF customer = NoCustomer THEN {}
    ELSE IF ~isStarted(customer) THEN {"start", "no_show", "complete"}
    ELSE {"complete"}

\* The buttons rendered for the customer held, lines 43-50 and 97-123.
Rendered(customer) ==
    IF customer = NoCustomer THEN {}
    ELSE IF ~isStarted(customer) THEN {"start", "no_show"}
    ELSE {"complete"}

\* Clickable with the buttons left enabled while a request is in flight.
Clickable_IgnoresBusy(customer, busy) ==
    Rendered(customer)

\* disabled={loading}, lines 102, 109, 118.
Clickable(customer, busy) ==
    IF busy THEN {} ELSE Rendered(customer)

\* handleAction up to the await, lines 26-34.
HandleAction(action) ==
    /\ UNCHANGED <<wizVars, checkInVars, pollVars, restVars>>
    /\ lastOp' = "HandleAction"
    /\ action \in Clickable(currentCustomer, cc_loading)
    /\ Len(actionReqs) < MaxActionReqs
    /\ cc_loading' = TRUE
    /\ actionReqs' = Append2(actionReqs,
            [queue_id |-> currentCustomer.id, action |-> action,
             counter_number |-> CounterNumber, staff_id |-> StaffId])
    /\ UNCHANGED <<srvQueue, fetches, queue, currentCustomer, lastData>>

\* The external service: what a staff action does to the entry it names.
ServiceAccepts(q, req) ==
    /\ q.id = req.queue_id
    /\ \/ req.action \in {"start", "no_show"} /\ IsOpen(q)
       \/ req.action = "complete" /\ q.status = "in_progress"
              /\ q.assigned_counter = req.counter_number

ServiceApply(q, req) ==
    IF ~ServiceAccepts(q, req) THEN q
    ELSE IF req.action = "start"
         THEN [q EXCEPT !.status = "in_progress",
                        !.assigned_counter = req.counter_number,
                        !.start_time = 1]
    ELSE IF req.action = "complete" THEN [q EXCEPT !.status = "completed"]
    ELSE [q EXCEPT !.status = "no_show"]

\* ActionAck that also puts the outcome of the action into the entry held,
\* ahead of the refresh.
ActionAck_UpdatesLocally(i) ==
    /\ UNCHANGED <<wizVars, checkInVars, pollVars, restVars>>
    /\ lastOp' = "ActionAck"
    /\ i \in 1..Len(actionReqs)
    /\ \E k \in 1..Len(srvQueue) : ServiceAccepts(srvQueue[k], actionReqs[i])
    /\ Len(fetches) < MaxFetch
    /\ srvQueue' = [k \in 1..Len(srvQueue) |-> ServiceApply(srvQueue[k], actionReqs[i])]
    /\ fetches' = Append2(fetches, srvQueue')
    /\ cc_loading' = FALSE
    /\ actionReqs' = RemoveAt(actionReqs, i)
    /\ currentCustomer' = IF currentCustomer = NoCustomer THEN currentCustomer
                          ELSE ServiceApply(currentCustomer, actionReqs[i])
    /\ UNCHANGED <<queue, lastData>>

\* Request i is acknowledged: lines 35 and 38-40. onUpdate is fetchQueue.
ActionAck(i) ==
    /\ UNCHANGED <<wizVars, checkInVars, pollVars, restVars>>
    /\ lastOp' = "ActionAck"
    /\ i \in 1..Len(actionReqs)
    /\ \E k \in 1..Len(srvQueue) : ServiceAccepts(srvQueue[k], actionReqs[i])
    /\ Len(fetches) < MaxFetch
    /\ srvQueue' = [k \in 1..Len(srvQueue) |-> ServiceApply(srvQueue[k], actionReqs[i])]
    /\ fetches' = Append2(fetches, srvQueue')
    /\ cc_loading' = FALSE
    /\ actionReqs' = RemoveAt(actionReqs, i)
    /\ UNCHANGED <<queue, currentCustomer, lastData>>

\* ActionFail with the catch branch refreshing the queue as the success path
\* does.
ActionFail_Refreshes(i) ==
    /\ UNCHANGED <<wizVars, checkInVars, pollVars, restVars>>
    /\ lastOp' = "ActionFail"
    /\ i \in 1..Len(actionReqs)
    /\ Len(fetches) < MaxFetch
    /\ fetches' = Append2(fetches, srvQueue)
    /\ cc_loading' = FALSE
    /\ actionReqs' = RemoveAt(actionReqs, i)
    /\ UNCHANGED <<srvQueue, queue, currentCustomer, lastData>>

\* Request i throws: lines 36-40.
ActionFail(i) ==
    /\ UNCHANGED <<wizVars, checkInVars, pollVars, restVars>>
    /\ lastOp' = "ActionFail"
    /\ i \in 1..Len(actionReqs)
    /\ cc_loading' = FALSE
    /\ actionReqs' = RemoveAt(actionReqs, i)
    /\ UNCHANGED <<srvQueue, fetches, queue, currentCustomer, lastData>>

\* ----------------------------------------------------------------- strings
\* A string is the sequence of its characters.
Digits == {"9"}
MobileChars == {"9", "a"}
VoiceChars == {"C", "c", "d", "w", " ", "_"}

SeqsUpTo(S, n) == UNION {[1..k -> S] : k \in 0..n}

\* value.replace(/\D/g, '')
StripNonDigits(str) == SelectSeq(str, LAMBDA ch : ch \in Digits)

\* value.slice(0, n)
Slice0(str, n) == IF Len(str) <= n THEN str ELSE SubSeq(str, 1, n)

\* String.prototype.toLowerCase
LowerChar(ch) == IF ch = "C" THEN "c" ELSE IF ch = "D" THEN "d"
                 ELSE IF ch = "W" THEN "w" ELSE ch
toLowerCase(str) == [k \in 1..Len(str) |-> LowerChar(str[k])]

\* str.replace('_', ' '): a string pattern replaces the first occurrence only.
replaceFirstUnderscore(str) ==
    IF \E k \in 1..Len(str) : str[k] = "_"
    THEN LET f == CHOOSE k \in 1..Len(str) :
                      str[k] = "_" /\ \A j \in 1..(k - 1) : str[j] # "_"
         IN  [str EXCEPT ![f] = " "]
    ELSE str

\* text.includes(part)
includes(text, part) ==
    \E k \in 0..(Len(text) - Len(part)) :
        \A j \in 1..Len(part) : text[k + j] = part[j]

\* ------------------------------------------------------------- WalkInForm
NoService == "none"  \* selectedService null, and find() finding nothing

\* data.service_types as the service answers it.
Catalog ==
    << [id |-> "Cash_Deposit", name |-> <<"C", "_", "D">>],
       [id |-> "Cash_Withdrawal", name |-> <<"C", "_", "W">>] >>

Slots == 1..NumSlots
\* The date field holds today (the initial value, line 260) or another day.
Dates == {1, 2}

\* A setter called on an instance that is no longer mounted changes nothing.
Set(old, new) == IF mounted THEN new ELSE old

\* The loading overlay of step 2 (lines 503-510) covers the whole screen.
Overlay == step = 2 /\ loading /\ mode # "pre_book"

\* VoiceInput's effect cleanup (part_001 lines 43-47) stops the recognition of
\* the render before on every re-render and on unmount; the stopped recognition
\* still holds the handler, and so the services, of that render.
StopRecognition ==
    IF mounted /\ step = 2 /\ isListening THEN stoppedRecs \cup {services}
    ELSE stoppedRecs

\* Lines 299-302.
foundService(svcs, transcript) ==
    LET text == toLowerCase(transcript)
        hit(sv) == \/ includes(text, toLowerCase(sv.name))
                   \/ includes(text, toLowerCase(replaceFirstUnderscore(sv.name)))
    IN  IF \E k \in 1..Len(svcs) : hit(svcs[k])
        THEN svcs[CHOOSE k \in 1..Len(svcs) :
                      hit(svcs[k]) /\ \A j \in 1..(k - 1) : ~hit(svcs[j])].id
        ELSE NoService

\* Lines 313-321: the guards of handleBookSlot.
MobileRejected == Len(mobile) < MobileLen
SlotRejected == mode = "pre_book" /\ selectedTimeSlot = Null

\* A time zone: the offset of its standard time from UTC, and the wall-clock
\* moments at which its clocks are put forward by an hour. Time is counted in
\* half hours, a wall-clock or UTC moment being 48 * day + half hour of the day.
Zones == {[std |-> o, gaps |-> g] : o \in {0 - 10, 0, 11},
                                   g \in {{}, {48 * 1 + 4}, {48 * 2}, {48 * 2 + 4}}}
KioskZone == [std |-> 11, gaps |-> {}]

\* The half hour of the day of slot number k of generateSlots, lines 282-293:
\* 09:00, 09:30, 10:00, ...
SlotHalfHour(k) == 18 + (k - 1)

\* new Date(year, month, day, hours, minutes), lines 333-339: the UTC moment
\* of a wall-clock moment; a wall-clock moment the clocks skip is read with
\* the offset in force before they were put forward.
MakeDate(z, wall) ==
    wall - z.std - 2 * Cardinality({g \in z.gaps : g + 2 <= wall})

\* getFullYear() ... getMinutes(), line 343: the wall-clock moment of a UTC
\* moment.
LocalFields(z, utc) ==
    utc + z.std + 2 * Cardinality({g \in z.gaps : g - z.std <= utc})

\* toISOString()-style fields: those of UTC.
ScheduledTime_Utc(z, date, slot) ==
    LET utc == MakeDate(z, 48 * date + SlotHalfHour(slot))
    IN  <<utc \div 48, (utc % 48) - 17>>

\* Lines 328-344: the date and the slot are split, handed to new Date and
\* formatted again from the local fields, seconds 00; the result is given as
\* day and slot number.
ScheduledTime(z, date, slot) ==
    LET wall == LocalFields(z, MakeDate(z, 48 * date + SlotHalfHour(slot)))
    IN  <<wall \div 48, (wall % 48) - 17>>

\* Lines 328-344 and 346-354: the payload of bookSlot.
Payload(serviceId) ==
    [mobile |-> mobile,
     service_type |-> IF serviceId # NoService THEN serviceId ELSE selectedService,
     booking_type |-> IF mode = "pre_book" THEN "pre_booked" ELSE "walk_in",
     scheduled_time |-> IF mode = "pre_book" /\ selectedTimeSlot # Null
                        THEN ScheduledTime(zone, selectedDate, selectedTimeSlot) ELSE <<>>]

\* handleBookSlot(serviceId) up to the await, lines 312-354, called while
\* selectedService is about to become sel and isListening is about to become lis.
BookSlotCall(serviceId, sel, lis) ==
    /\ selectedService' = Set(selectedService, sel)
    /\ isListening' = Set(isListening, lis)
    /\ IF MobileRejected
       THEN /\ error' = Set(error, "Please enter a valid mobile number")
            /\ UNCHANGED <<loading, bookReqs, bookIssued>>
       ELSE IF SlotRejected
       THEN /\ error' = Set(error, "Please select a time slot")
            /\ UNCHANGED <<loading, bookReqs, bookIssued>>
       ELSE /\ Len(bookReqs) < MaxBookReqs
            /\ bookIssued < MaxBookings
            /\ loading' = Set(loading, TRUE)
            /\ error' = Set(error, "")
            /\ bookReqs' = Append2(bookReqs, Payload(serviceId))
            /\ bookIssued' = bookIssued + 1

\* onChange of the mobile field, line 397: the field shows mobile, and one
\* edit appends typed characters to it or deletes its last character.
MobileEdits ==
    {mobile \o typed : typed \in SeqsUpTo(MobileChars, MaxTyped) \ {<<>>}}
        \cup {SubSeq(mobile, 1, Len(mobile) - 1)}

\* storedMobile without the cut at ten characters.
storedMobile_NoSlice(value) == StripNonDigits(value)

\* Line 397: what setMobile receives.
storedMobile(value) == Slice0(StripNonDigits(value), MobileLen)

OnMobileChange(value) ==
    /\ UNCHANGED <<staffVars, checkInVars, pollVars, restVars, zone>>
    /\ mounted /\ step = 1
    /\ value \in MobileEdits
    /\ mobile' = storedMobile(value)
    /\ typedValue' = value
    /\ UNCHANGED <<mode, mounted, step, selectedService, isListening, services,
                   loading, error, selectedDate, selectedTimeSlot, availableSlots,
                   loadsInFlight, bookReqs, bookIssued, stoppedRecs, completions>>

\* The gate of step 1 asking only for a non-empty number.
MobileValid_NonEmpty == Len(mobile) >= 1

\* Lines 449-452: the gate of step 1.
MobileValid == Len(mobile) = MobileLen

\* The Next Step button, lines 448-456.
NextStep ==
    /\ UNCHANGED <<staffVars, checkInVars, pollVars, restVars, zone>>
    /\ mounted /\ step = 1
    /\ IF MobileValid
       THEN step' = 2 /\ typedValue' = <<>> /\ UNCHANGED error
       ELSE /\ error' = "Please enter a valid 10-digit mobile number"
            /\ UNCHANGED <<step, typedValue>>
    /\ UNCHANGED <<mode, mounted, mobile, selectedService, isListening, services,
                   loading, selectedDate, selectedTimeSlot, availableSlots,
                   loadsInFlight, bookReqs, bookIssued, stoppedRecs, completions>>

\* getServiceTypes() resolves, lines 268-269.
LoadServicesOk ==
    /\ UNCHANGED <<staffVars, checkInVars, pollVars, restVars, zone>>
    /\ loadsInFlight > 0
    /\ loadsInFlight' = loadsInFlight - 1
    /\ services' = Set(services, Catalog)
    /\ stoppedRecs' = StopRecognition
    /\ UNCHANGED <<typedValue, mode, mounted, step, mobile, selectedService, isListening,
                   loading, error, selectedDate, selectedTimeSlot, availableSlots,
                   bookReqs, bookIssued, completions>>

\* getServiceTypes() throws, lines 270-272.
LoadServicesFail ==
    /\ UNCHANGED <<staffVars, checkInVars, pollVars, restVars, zone>>
    /\ loadsInFlight > 0
    /\ loadsInFlight' = loadsInFlight - 1
    /\ UNCHANGED <<typedValue, mode, mounted, step, mobile, selectedService, isListening, services,
                   loading, error, selectedDate, selectedTimeSlot, availableSlots,
                   bookReqs, bookIssued, stoppedRecs, completions>>

\* The microphone button, part_001 lines 53-54.
ToggleMic ==
    /\ UNCHANGED <<staffVars, checkInVars, pollVars, restVars, zone>>
    /\ mounted /\ step = 2 /\ ~Overlay
    /\ isListening' = ~isListening
    /\ stoppedRecs' = StopRecognition
    /\ UNCHANGED <<typedValue, mode, mounted, step, mobile, selectedService, services,
                   loading, error, selectedDate, selectedTimeSlot, availableSlots,
                   loadsInFlight, bookReqs, bookIssued, completions>>

\* handleVoiceResult(transcript), lines 295-310, run by a handler that closed
\* over svcs, followed by setIsListening(false), part_001 line 28.
HandleVoiceResult(svcs, transcript) ==
    LET found == foundService(svcs, transcript)
    IN  IF found = NoService
        THEN /\ isListening' = Set(isListening, FALSE)
             /\ UNCHANGED <<selectedService, loading, error, bookReqs, bookIssued>>
        ELSE IF MobileValid /\ mode = "walk_in"
        THEN BookSlotCall(found, found, FALSE)
        ELSE /\ selectedService' = Set(selectedService, found)
             /\ isListening' = Set(isListening, FALSE)
             /\ UNCHANGED <<loading, error, bookReqs, bookIssued>>

\* VoiceResult sending the request for a service it finds in either mode.
VoiceResult_SubmitsInAnyMode(transcript) ==
    /\ UNCHANGED <<staffVars, checkInVars, pollVars, restVars, zone>>
    /\ mounted /\ step = 2 /\ isListening
    /\ LET found == foundService(services, transcript)
       IN  IF found = NoService
           THEN /\ isListening' = FALSE
                /\ UNCHANGED <<selectedService, loading, error, bookReqs, bookIssued>>
           ELSE /\ Len(bookReqs) < MaxBookReqs
                /\ bookIssued < MaxBookings
                /\ selectedService' = found
                /\ isListening' = FALSE
                /\ loading' = TRUE
                /\ error' = ""
                /\ bookReqs' = Append2(bookReqs, Payload(found))
                /\ bookIssued' = bookIssued + 1
    /\ UNCHANGED <<typedValue, mode, mounted, step, mobile, services, selectedDate,
                   selectedTimeSlot, availableSlots, loadsInFlight, stoppedRecs,
                   completions>>

\* recognition.onresult of the running recognition, part_001 lines 24-29.
VoiceResult(transcript) ==
    /\ UNCHANGED <<staffVars, checkInVars, pollVars, restVars, zone>>
    /\ mounted /\ step = 2 /\ isListening
    /\ HandleVoiceResult(services, transcript)
    /\ UNCHANGED <<typedValue, mode, mounted, step, mobile, services, selectedDate,
                   selectedTimeSlot, availableSlots, loadsInFlight, stoppedRecs,
                   completions>>

\* recognition.onend / onerror of the running recognition, part_001 lines 31-38.
VoiceEnd ==
    /\ UNCHANGED <<staffVars, checkInVars, pollVars, restVars, zone>>
    /\ mounted /\ step = 2 /\ isListening
    /\ isListening' = FALSE
    /\ UNCHANGED <<typedValue, mode, mounted, step, mobile, selectedService, services,
                   loading, error, selectedDate, selectedTimeSlot, availableSlots,
                   loadsInFlight, bookReqs, bookIssued, stoppedRecs, completions>>

\* recognition.stop() lets the recognition return a result for the audio it has
\* captured: onresult of a stopped recognition, whose handler closed over svcs.
LateVoiceResult(svcs, transcript) ==
    /\ UNCHANGED <<staffVars, checkInVars, pollVars, restVars, zone>>
    /\ svcs \in stoppedRecs
    /\ HandleVoiceResult(svcs, transcript)
    /\ stoppedRecs' = (stoppedRecs \ {svcs}) \cup (StopRecognition \ stoppedRecs)
    /\ UNCHANGED <<typedValue, mode, mounted, step, mobile, services, selectedDate,
                   selectedTimeSlot, availableSlots, loadsInFlight, completions>>

\* onend of a stopped recognition, part_001 lines 36-38.
LateVoiceEnd(svcs) ==
    /\ UNCHANGED <<staffVars, checkInVars, pollVars, restVars, zone>>
    /\ svcs \in stoppedRecs
    /\ isListening' = Set(isListening, FALSE)
    /\ stoppedRecs' = (stoppedRecs \ {svcs}) \cup (StopRecognition \ stoppedRecs)
    /\ UNCHANGED <<typedValue, mode, mounted, step, mobile, selectedService, services,
                   loading, error, selectedDate, selectedTimeSlot, availableSlots,
                   loadsInFlight, bookReqs, bookIssued, completions>>

\* ServiceTap moving to the slot selection in either mode.
ServiceTap_AlwaysStep3(k) ==
    /\ UNCHANGED <<staffVars, checkInVars, pollVars, restVars, zone>>
    /\ mounted /\ step = 2 /\ ~loading
    /\ k \in 1..Len(services)
    /\ selectedService' = services[k].id
    /\ step' = 3
    /\ stoppedRecs' = StopRecognition
    /\ UNCHANGED <<typedValue, mode, mounted, mobile, isListening, services, loading,
                   error, selectedDate, selectedTimeSlot, availableSlots,
                   loadsInFlight, bookReqs, bookIssued, completions>>

\* A service button, lines 477-487.
ServiceTap(k) ==
    /\ UNCHANGED <<staffVars, checkInVars, pollVars, restVars, zone>>
    /\ mounted /\ step = 2 /\ ~loading
    /\ k \in 1..Len(services)
    /\ IF mode = "pre_book"
       THEN /\ selectedService' = services[k].id
            /\ step' = 3
            /\ UNCHANGED <<isListening, loading, error, bookReqs, bookIssued>>
       ELSE /\ BookSlotCall(services[k].id, services[k].id, isListening)
            /\ UNCHANGED step
    /\ stoppedRecs' = StopRecognition
    /\ UNCHANGED <<typedValue, mode, mounted, mobile, services, selectedDate,
                   selectedTimeSlot, availableSlots, loadsInFlight, completions>>

\* SelectSlot with no slot button disabled.
SelectSlot_IgnoresDisabled(slot) ==
    /\ UNCHANGED <<staffVars, checkInVars, pollVars, restVars, zone>>
    /\ mounted /\ step = 3 /\ mode = "pre_book"
    /\ slot \in DOMAIN availableSlots
    /\ selectedTimeSlot' = slot
    /\ UNCHANGED <<typedValue, mode, mounted, step, mobile, selectedService, isListening, services,
                   loading, error, selectedDate, availableSlots,
                   loadsInFlight, bookReqs, bookIssued, stoppedRecs, completions>>

\* A press on a slot button, lines 529-543: a button with disabled set
\* (line 532) delivers no click, and the press changes nothing.
SelectSlot(slot) ==
    /\ UNCHANGED <<staffVars, checkInVars, pollVars, restVars, zone>>
    /\ mounted /\ step = 3 /\ mode = "pre_book"
    /\ slot \in DOMAIN availableSlots
    /\ selectedTimeSlot' = IF availableSlots[slot] THEN slot ELSE selectedTimeSlot
    /\ UNCHANGED <<typedValue, mode, mounted, step, mobile, selectedService, isListening, services,
                   loading, error, selectedDate, availableSlots,
                   loadsInFlight, bookReqs, bookIssued, stoppedRecs, completions>>

\* The date field, line 523, and the effect it re-runs, lines 264-280, with
\* generateSlots, lines 282-293, drawing the availability at random.
ChangeDate(date) ==
    /\ UNCHANGED <<staffVars, checkInVars, pollVars, restVars, zone>>
    /\ mounted /\ step = 3 /\ mode = "pre_book"
    /\ date \in Dates \ {selectedDate}
    /\ loadsInFlight < MaxLoads
    /\ selectedDate' = date
    /\ loadsInFlight' = loadsInFlight + 1
    /\ availableSlots' \in [Slots -> BOOLEAN]
    /\ UNCHANGED <<typedValue, mode, mounted, step, mobile, selectedService, isListening, services,
                   loading, error, selectedTimeSlot,
                   bookReqs, bookIssued, stoppedRecs, completions>>

\* Confirm sending the request whether or not a slot is selected.
Confirm_WithoutSlot ==
    /\ UNCHANGED <<staffVars, checkInVars, pollVars, restVars, zone>>
    /\ mounted /\ step = 3 /\ mode = "pre_book"
    /\ ~loading
    /\ Len(bookReqs) < MaxBookReqs
    /\ bookIssued < MaxBookings
    /\ loading' = TRUE
    /\ error' = ""
    /\ bookReqs' = Append2(bookReqs, Payload(NoService))
    /\ bookIssued' = bookIssued + 1
    /\ UNCHANGED <<selectedService, isListening>>
    /\ UNCHANGED <<typedValue, mode, mounted, step, mobile, services, selectedDate,
                   selectedTimeSlot, availableSlots, loadsInFlight, stoppedRecs,
                   completions>>

\* A press on the Confirm Appointment button, lines 553-559: with disabled
\* set (line 555) the button delivers no click, and the press changes nothing;
\* otherwise it calls handleBookSlot().
Confirm ==
    /\ UNCHANGED <<staffVars, checkInVars, pollVars, restVars, zone>>
    /\ mounted /\ step = 3 /\ mode = "pre_book"
    /\ IF loading \/ selectedTimeSlot = Null
       THEN UNCHANGED <<selectedService, isListening, loading, error, bookReqs,
                        bookIssued>>
       ELSE BookSlotCall(NoService, selectedService, isListening)
    /\ UNCHANGED <<typedValue, mode, mounted, step, mobile, services, selectedDate,
                   selectedTimeSlot, availableSlots, loadsInFlight, stoppedRecs,
                   completions>>

\* bookSlot call i resolves with success: lines 356-358 and 362-364; onComplete
\* is KioskPage.handleComplete, which replaces the wizard by the success view
\* (AdminPage.jsx lines 166-168 and 196).
BookOk(i) ==
    /\ UNCHANGED <<staffVars, checkInVars, pollVars, restVars, zone>>
    /\ i \in 1..Len(bookReqs)
    /\ completions' = Append2(completions, bookReqs[i])
    /\ mounted' = FALSE
    /\ loading' = Set(loading, FALSE)
    /\ bookReqs' = RemoveAt(bookReqs, i)
    /\ stoppedRecs' = StopRecognition
    /\ UNCHANGED <<typedValue, mode, step, mobile, selectedService, isListening, services,
                   error, selectedDate, selectedTimeSlot, availableSlots,
                   loadsInFlight, bookIssued>>

\* bookSlot call i resolves with success false: lines 356 and 362-364.
BookNegative(i) ==
    /\ UNCHANGED <<staffVars, checkInVars, pollVars, restVars, zone>>
    /\ i \in 1..Len(bookReqs)
    /\ loading' = Set(loading, FALSE)
    /\ bookReqs' = RemoveAt(bookReqs, i)
    /\ stoppedRecs' = StopRecognition
    /\ UNCHANGED <<typedValue, mode, mounted, step, mobile, selectedService, isListening, services,
                   error, selectedDate, selectedTimeSlot, availableSlots,
                   loadsInFlight, bookIssued, completions>>

\* bookSlot call i throws: lines 359-364.
BookFail(i) ==
    /\ UNCHANGED <<staffVars, checkInVars, pollVars, restVars, zone>>
    /\ i \in 1..Len(bookReqs)
    /\ error' = Set(error, "Booking failed. Please try again.")
    /\ loading' = Set(loading, FALSE)
    /\ bookReqs' = RemoveAt(bookReqs, i)
    /\ stoppedRecs' = StopRecognition
    /\ UNCHANGED <<typedValue, mode, mounted, step, mobile, selectedService, isListening, services,
                   selectedDate, selectedTimeSlot, availableSlots,
                   loadsInFlight, bookIssued, completions>>

\* The back arrow, line 371; onBack is () => setView('welcome'), AdminPage.jsx
\* line 198.
OnBack ==
    /\ UNCHANGED <<staffVars, checkInVars, pollVars, restVars, zone>>
    /\ mounted /\ ~Overlay
    /\ mounted' = FALSE
    /\ typedValue' = <<>>
    /\ stoppedRecs' = StopRecognition
    /\ UNCHANGED <<mode, step, mobile, selectedService, isListening, services,
                   loading, error, selectedDate, selectedTimeSlot, availableSlots,
                   loadsInFlight, bookReqs, bookIssued, completions>>

\* ------------------------------------------------------------ CheckInScreen
\* details null (line 8).
NoDetails == [success |-> FALSE, message |-> "", token_number |-> Null]

\* What /sim-proximity answers: a positive result carrying a token, or a
\* negative result carrying a message or none.
PositiveResults ==
    {[success |-> TRUE, message |-> "Check-in successful", token_number |-> t] :
        t \in 1..MaxTokens}
NegativeMessages == {"No appointment found", "Already checked in", ""}

\* What the mobile field of the form (lines 67-74, maxLength 10, no filter on
\* the characters) holds on submit: nothing, nine digits, ten digits, ten
\* characters one of which is a letter.
SubmittedValues ==
    {[k \in 1..n |-> "9"] : n \in {0, MobileLen - 1, MobileLen}}
        \cup {[k \in 1..MobileLen |-> IF k = MobileLen THEN "a" ELSE "9"]}

\* A setter called on an instance that is no longer mounted changes nothing.
SetCk(old, new) == IF ck_mounted THEN new ELSE old

\* The timeout of the mount effect fires, lines 12-16.
ScanTimeout ==
    /\ UNCHANGED <<staffVars, wizVars, pollVars, restVars>>
    /\ scanTimer
    /\ scanTimer' = FALSE
    /\ status' = "input"
    /\ message' = "Please enter your registered mobile number"
    /\ UNCHANGED <<ck_mounted, details, lookups, lookupsIssued, doneTimers,
                   ck_completions, resetPending>>

\* handleMobileSubmit leaving the status on input.
CheckInSubmit_StaysOnInput(value) ==
    /\ UNCHANGED <<staffVars, wizVars, pollVars, restVars>>
    /\ ck_mounted /\ status = "input"
    /\ value \in SubmittedValues
    /\ Len(value) = MobileLen
    /\ Len(lookups) < MaxLookupReqs
    /\ lookupsIssued < MaxLookups
    /\ message' = "Verifying appointment..."
    /\ lookups' = Append2(lookups, value)
    /\ lookupsIssued' = lookupsIssued + 1
    /\ UNCHANGED <<status, ck_mounted, details, scanTimer, doneTimers, ck_completions,
                   resetPending>>

\* The form is submitted (line 65): handleMobileSubmit up to the await,
\* lines 21-31.
CheckInSubmit(value) ==
    /\ UNCHANGED <<staffVars, wizVars, pollVars, restVars>>
    /\ ck_mounted /\ status = "input"
    /\ value \in SubmittedValues
    /\ IF Len(value) # MobileLen
       THEN UNCHANGED <<status, message, lookups, lookupsIssued>>
       ELSE /\ Len(lookups) < MaxLookupReqs
            /\ lookupsIssued < MaxLookups
            /\ status' = "processing"
            /\ message' = "Verifying appointment..."
            /\ lookups' = Append2(lookups, value)
            /\ lookupsIssued' = lookupsIssued + 1
    /\ UNCHANGED <<ck_mounted, details, scanTimer, doneTimers, ck_completions,
                   resetPending>>

\* LookupOk arming no timeout.
LookupOk_NoTimer(i, result) ==
    /\ UNCHANGED <<staffVars, wizVars, pollVars, restVars>>
    /\ i \in 1..Len(lookups)
    /\ result \in PositiveResults
    /\ lookups' = RemoveAt(lookups, i)
    /\ status' = SetCk(status, "success")
    /\ details' = SetCk(details, result)
    /\ message' = SetCk(message, result.message)
    /\ UNCHANGED <<ck_mounted, scanTimer, lookupsIssued, doneTimers, ck_completions,
                   resetPending>>

\* Lookup i resolves with success: lines 33-37.
LookupOk(i, result) ==
    /\ UNCHANGED <<staffVars, wizVars, pollVars, restVars>>
    /\ i \in 1..Len(lookups)
    /\ result \in PositiveResults
    /\ lookups' = RemoveAt(lookups, i)
    /\ status' = SetCk(status, "success")
    /\ details' = SetCk(details, result)
    /\ message' = SetCk(message, result.message)
    /\ doneTimers' = Append2(doneTimers, result)
    /\ UNCHANGED <<ck_mounted, scanTimer, lookupsIssued, ck_completions, resetPending>>

\* LookupNegative showing the message of the catch branch.
LookupNegative_FixedMessage(i, msg) ==
    /\ UNCHANGED <<staffVars, wizVars, pollVars, restVars>>
    /\ i \in 1..Len(lookups)
    /\ msg \in NegativeMessages
    /\ lookups' = RemoveAt(lookups, i)
    /\ status' = SetCk(status, "error")
    /\ message' = SetCk(message, "Check-in failed. Please try again.")
    /\ UNCHANGED <<ck_mounted, details, scanTimer, lookupsIssued, doneTimers,
                   ck_completions, resetPending>>

\* Lookup i resolves with success false and message msg: lines 38-41.
LookupNegative(i, msg) ==
    /\ UNCHANGED <<staffVars, wizVars, pollVars, restVars>>
    /\ i \in 1..Len(lookups)
    /\ msg \in NegativeMessages
    /\ lookups' = RemoveAt(lookups, i)
    /\ status' = SetCk(status, "error")
    /\ message' = SetCk(message, IF msg # "" THEN msg ELSE "No appointment found")
    /\ UNCHANGED <<ck_mounted, details, scanTimer, lookupsIssued, doneTimers,
                   ck_completions, resetPending>>

\* Lookup i throws: lines 42-45.
LookupFail(i) ==
    /\ UNCHANGED <<staffVars, wizVars, pollVars, restVars>>
    /\ i \in 1..Len(lookups)
    /\ lookups' = RemoveAt(lookups, i)
    /\ status' = SetCk(status, "error")
    /\ message' = SetCk(message, "Check-in failed. Please try again.")
    /\ UNCHANGED <<ck_mounted, details, scanTimer, lookupsIssued, doneTimers,
                   ck_completions, resetPending>>

\* Try Again going back to the scanning status.
TryAgain_ToScanning ==
    /\ UNCHANGED <<staffVars, wizVars, pollVars, restVars>>
    /\ ck_mounted /\ status = "error"
    /\ status' = "scanning"
    /\ UNCHANGED <<ck_mounted, message, details, scanTimer, lookups, lookupsIssued,
                   doneTimers, ck_completions, resetPending>>

\* The Try Again button, line 112.
TryAgain ==
    /\ UNCHANGED <<staffVars, wizVars, pollVars, restVars>>
    /\ ck_mounted /\ status = "error"
    /\ status' = "input"
    /\ UNCHANGED <<ck_mounted, message, details, scanTimer, lookups, lookupsIssued,
                   doneTimers, ck_completions, resetPending>>

\* Cancel, line 78, and Return to Home, line 115; onBack is
\* () => setView('welcome'), AdminPage.jsx line 205. The cleanup of the mount
\* effect clears its timeout, line 18.
CheckInBack ==
    /\ UNCHANGED <<staffVars, wizVars, pollVars, restVars>>
    /\ ck_mounted /\ status \in {"input", "error"}
    /\ ck_mounted' = FALSE
    /\ scanTimer' = FALSE
    /\ UNCHANGED <<status, message, details, lookups, lookupsIssued, doneTimers,
                   ck_completions, resetPending>>

\* KioskReset with the unmounted screen's scan timeout left armed.
KioskReset_LeavesTimer ==
    /\ UNCHANGED <<staffVars, wizVars, pollVars, restVars>>
    /\ resetPending
    /\ resetPending' = FALSE
    /\ ck_mounted' = FALSE
    /\ UNCHANGED <<status, message, details, scanTimer, lookups, lookupsIssued,
                   doneTimers, ck_completions>>

\* The reset timeout KioskPage.handleComplete armed for an earlier completion
\* (AdminPage.jsx lines 170-173, never cleared) fires while the check-in
\* screen is shown: setView('welcome') unmounts it.
KioskReset ==
    /\ UNCHANGED <<staffVars, wizVars, pollVars, restVars>>
    /\ resetPending
    /\ resetPending' = FALSE
    /\ ck_mounted' = FALSE
    /\ scanTimer' = FALSE
    /\ UNCHANGED <<status, message, details, lookups, lookupsIssued, doneTimers,
                   ck_completions>>

\* The timeout of line 37 fires: onComplete(result) is
\* KioskPage.handleComplete, which replaces the check-in screen by the
\* success view (AdminPage.jsx lines 166-168 and 203).
DoneTimerFires(j) ==
    /\ UNCHANGED <<staffVars, wizVars, pollVars, restVars>>
    /\ j \in 1..Len(doneTimers)
    /\ ck_completions' = Append2(ck_completions, doneTimers[j])
    /\ doneTimers' = RemoveAt(doneTimers, j)
    /\ ck_mounted' = FALSE
    /\ scanTimer' = FALSE
    /\ UNCHANGED <<status, message, details, lookups, lookupsIssued, resetPending>>

\* ---------------------------------------------------------------- KioskPage
\* The views the page is ever in: the initial one, the three the welcome
\* screen passes to setView, and the one handleComplete sets.
Modes == {"walk_in", "check_in", "pre_book"}

KioskViews == {"welcome", "success"} \cup Modes

\* The views for which the page renders something, AdminPage.jsx lines 192-210.
RenderedViews == {"welcome", "walk_in", "check_in", "success"}

\* A button of the welcome screen, part_002 lines 19, 30 and 43; onSelectMode
\* is setView, AdminPage.jsx line 193.
onSelectMode(m) ==
    /\ UNCHANGED <<staffVars, wizVars, checkInVars, pollVars, barVars>>
    /\ view = "welcome"
    /\ m \in Modes
    /\ view' = m
    /\ UNCHANGED <<successData, resetTimers, pendingCompletes, completed>>

\* The back arrow of the wizard or of the check-in screen, AdminPage.jsx lines
\* 198 and 205.
KioskOnBack ==
    /\ UNCHANGED <<staffVars, wizVars, checkInVars, pollVars, barVars>>
    /\ view \in {"walk_in", "check_in"}
    /\ view' = "welcome"
    /\ UNCHANGED <<successData, resetTimers, pendingCompletes, completed>>

\* The flow on screen sends its booking (WalkInForm.jsx lines 346-354) or
\* arms the delay of its success screen (CheckInScreen.jsx line 37): either
\* will call onComplete, whatever the page shows by then.
FlowCommits ==
    /\ UNCHANGED <<staffVars, wizVars, checkInVars, pollVars, barVars>>
    /\ view \in {"walk_in", "check_in"}
    /\ pendingCompletes < MaxPending
    /\ completed + pendingCompletes < MaxCompletions
    /\ pendingCompletes' = pendingCompletes + 1
    /\ UNCHANGED <<view, successData, resetTimers, completed>>

\* handleComplete(data), AdminPage.jsx lines 166-174, up to setTimeout; data is
\* the result of the completion, named by its number.
handleComplete ==
    /\ UNCHANGED <<staffVars, wizVars, checkInVars, pollVars, barVars>>
    /\ pendingCompletes > 0
    /\ pendingCompletes' = pendingCompletes - 1
    /\ completed' = completed + 1
    /\ successData' = completed'
    /\ view' = "success"
    /\ resetTimers' = resetTimers \cup {completed'}

\* The timeout of completion d fires, AdminPage.jsx lines 170-173.
ResetFires(d) ==
    /\ UNCHANGED <<staffVars, wizVars, checkInVars, pollVars, barVars>>
    /\ d \in resetTimers
    /\ resetTimers' = resetTimers \ {d}
    /\ view' = "welcome"
    /\ successData' = Null
    /\ UNCHANGED <<pendingCompletes, completed>>

\* The Return to Home Screen button, AdminPage.jsx lines 248-253, rendered
\* with the success view (line 210).
ReturnHome ==
    /\ UNCHANGED <<staffVars, wizVars, checkInVars, pollVars, barVars>>
    /\ view = "success" /\ successData # Null
    /\ view' = "welcome"
    /\ UNCHANGED <<successData, resetTimers, pendingCompletes, completed>>

\* The page as constructed, AdminPage.jsx lines 163-164.
KioskConstructed ==
    /\ view = "welcome"
    /\ successData = Null
    /\ resetTimers = {}
    /\ pendingCompletes = 0
    /\ completed = 0

\* No kiosk page is looked at.
KioskAbsent == KioskConstructed

\* ----------------------------------------------------------- PerformanceBar
\* colorClass, lines 14-19. actualTime is counted in fifths of a minute and
\* predictedTime in minutes, so that predictedTime * 0.8 is 4 * predictedTime
\* fifths and predictedTime is 5 * predictedTime fifths.
ColorClassOf_AtBoundary(actual, predicted) ==
    IF actual >= 5 * predicted THEN "bg-red-500"
    ELSE IF actual >= 4 * predicted THEN "bg-yellow-500"
    ELSE "bg-emerald-500"

ColorClassOf(actual, predicted) ==
    IF actual > 5 * predicted THEN "bg-red-500"
    ELSE IF actual > 4 * predicted THEN "bg-yellow-500"
    ELSE "bg-emerald-500"

\* The elapsed times the bar is rendered with: from behind the start (a start
\* time ahead of the terminal's clock) to past the prediction.
ElapsedTimes == (0 - 2)..(5 * MaxPredicted + 3)

\* CurrentCustomer renders the bar again with the elapsed time of the latest
\* tick, CurrentCustomer.jsx lines 89-94.
BarRender(actual) ==
    /\ UNCHANGED <<staffVars, wizVars, checkInVars, pollVars>>
    /\ actual # actualTime
    /\ actualTime' = actual
    /\ colorClass' = ColorClassOf(actual, predictedTime)
    /\ UNCHANGED <<predictedTime, kioskVars>>

\* The bar as first rendered for a customer just started.
BarConstructed ==
    /\ actualTime = 0
    /\ colorClass = ColorClassOf(0, predictedTime)

\* No bar is looked at.
BarAbsent ==
    /\ predictedTime = 1
    /\ BarConstructed

\* ---------------------------------------------------------------- AdminPage
\* The reports GET /analytics may answer with.
AnalyticsReports == {1, 2}

\* A state setter of AdminPage: React drops the update of an unmounted
\* component.
SetAd(old, new) == IF ad_mounted THEN new ELSE old

\* fetchAnalytics is called, line 11: the request is answered from the report
\* the service holds now.
FetchAnalyticsCall ==
    /\ UNCHANGED <<staffVars, wizVars, checkInVars, restVars>>
    /\ Len(ad_fetches) < MaxFetch
    /\ ad_fetches' = Append2(ad_fetches, srvAnalytics)
    /\ UNCHANGED <<ad_mounted, ad_interval, ad_data, ad_loading, srvAnalytics>>
    /\ UNCHANGED <<staffPollVars, calendarVars>>

\* The mount effect, lines 20-24: fetchAnalytics() at once, then the interval.
AdminMountEffect ==
    /\ UNCHANGED <<staffVars, wizVars, checkInVars, restVars>>
    /\ ad_mounted /\ ad_interval = "unset"
    /\ ad_fetches' = Append2(ad_fetches, srvAnalytics)
    /\ ad_interval' = "armed"
    /\ UNCHANGED <<ad_mounted, ad_data, ad_loading, srvAnalytics>>
    /\ UNCHANGED <<staffPollVars, calendarVars>>

\* The interval fires, line 22.
AnalyticsTick ==
    /\ ad_interval = "armed"
    /\ FetchAnalyticsCall

\* The response of call i arrives: lines 11-12 and 15-16.
FetchAnalyticsOk(i) ==
    /\ UNCHANGED <<staffVars, wizVars, checkInVars, restVars>>
    /\ i \in 1..Len(ad_fetches)
    /\ ad_data' = SetAd(ad_data, ad_fetches[i])
    /\ ad_loading' = SetAd(ad_loading, FALSE)
    /\ ad_fetches' = RemoveAt(ad_fetches, i)
    /\ UNCHANGED <<ad_mounted, ad_interval, srvAnalytics>>
    /\ UNCHANGED <<staffPollVars, calendarVars>>

\* Call i throws: lines 13-16.
FetchAnalyticsFail(i) ==
    /\ UNCHANGED <<staffVars, wizVars, checkInVars, restVars>>
    /\ i \in 1..Len(ad_fetches)
    /\ ad_loading' = SetAd(ad_loading, FALSE)
    /\ ad_fetches' = RemoveAt(ad_fetches, i)
    /\ UNCHANGED <<ad_mounted, ad_interval, ad_data, srvAnalytics>>
    /\ UNCHANGED <<staffPollVars, calendarVars>>

\* The cleanup of the mount effect, line 23.
AdminUnmount ==
    /\ UNCHANGED <<staffVars, wizVars, checkInVars, restVars>>
    /\ ad_mounted /\ ad_interval = "armed"
    /\ ad_mounted' = FALSE
    /\ ad_interval' = clearInterval(ad_interval)
    /\ UNCHANGED <<ad_data, ad_loading, ad_fetches, srvAnalytics>>
    /\ UNCHANGED <<staffPollVars, calendarVars>>

\* The service recomputes its report.
AnalyticsChange ==
    /\ UNCHANGED <<staffVars, wizVars, checkInVars, restVars>>
    /\ srvAnalytics' \in AnalyticsReports \ {srvAnalytics}
    /\ UNCHANGED <<ad_mounted, ad_interval, ad_data, ad_loading, ad_fetches>>
    /\ UNCHANGED <<staffPollVars, calendarVars>>

\* ------------------------------------------------------ AppointmentCalendar
\* The days the calendar is moved over.
CalDays == {1, 2}

\* data.appointments of GET /appointments for a day: the appointments the
\* service holds for it, each carrying its day.
AppointmentsOf(held, day) == IF day \in held THEN <<[day |-> day]>> ELSE <<>>

\* A state setter of AppointmentCalendar: React drops the update of an
\* unmounted component.
SetAc(old, new) == IF ac_mounted THEN new ELSE old

\* fetchAppointments as the closure of the latest effect runs it up to its
\* await, lines 15-19: the day and the appointments are those of the render
\* that created the closure.
FetchAppointmentsCall(day, seen) ==
    /\ ac_loading' = IF seen = <<>> THEN SetAc(ac_loading, TRUE) ELSE ac_loading
    /\ ac_fetches' = Append2(ac_fetches, AppointmentsOf(srvAppointments, day))

\* The effect of the first render, lines 28-32.
CalendarMountEffect ==
    /\ UNCHANGED <<staffVars, wizVars, checkInVars, restVars>>
    /\ ac_mounted /\ ac_interval = "unset"
    /\ FetchAppointmentsCall(ac_date, appointments)
    /\ ac_captured' = appointments
    /\ ac_interval' = "armed"
    /\ UNCHANGED <<ac_mounted, ac_date, appointments, srvAppointments>>
    /\ UNCHANGED <<staffPollVars, adminVars>>

\* The interval fires, line 30.
AppointmentsTick ==
    /\ UNCHANGED <<staffVars, wizVars, checkInVars, restVars>>
    /\ ac_interval = "armed"
    /\ Len(ac_fetches) < MaxFetch
    /\ FetchAppointmentsCall(ac_date, ac_captured)
    /\ UNCHANGED <<ac_mounted, ac_interval, ac_date, appointments, ac_captured, srvAppointments>>
    /\ UNCHANGED <<staffPollVars, adminVars>>

\* changeDate, lines 34-38, and the render it causes: formattedDate changes,
\* so the cleanup of the previous effect clears its interval and the effect
\* runs again, lines 28-32.
changeDate(days) ==
    /\ UNCHANGED <<staffVars, wizVars, checkInVars, restVars>>
    /\ ac_mounted /\ ac_interval = "armed"
    /\ ac_date + days \in CalDays
    /\ Len(ac_fetches) < MaxFetch
    /\ ac_date' = ac_date + days
    /\ FetchAppointmentsCall(ac_date + days, appointments)
    /\ ac_captured' = appointments
    /\ UNCHANGED <<ac_mounted, ac_interval, appointments, srvAppointments>>
    /\ UNCHANGED <<staffPollVars, adminVars>>

\* The response of call i arrives: lines 19-20 and 23-24.
FetchAppointmentsOk(i) ==
    /\ UNCHANGED <<staffVars, wizVars, checkInVars, restVars>>
    /\ i \in 1..Len(ac_fetches)
    /\ appointments' = SetAc(appointments, ac_fetches[i])
    /\ ac_loading' = SetAc(ac_loading, FALSE)
    /\ ac_fetches' = RemoveAt(ac_fetches, i)
    /\ UNCHANGED <<ac_mounted, ac_interval, ac_date, ac_captured, srvAppointments>>
    /\ UNCHANGED <<staffPollVars, adminVars>>

\* Call i throws: lines 21-24.
FetchAppointmentsFail(i) ==
    /\ UNCHANGED <<staffVars, wizVars, checkInVars, restVars>>
    /\ i \in 1..Len(ac_fetches)
    /\ ac_loading' = SetAc(ac_loading, FALSE)
    /\ ac_fetches' = RemoveAt(ac_fetches, i)
    /\ UNCHANGED <<ac_mounted, ac_interval, ac_date, appointments, ac_captured, srvAppointments>>
    /\ UNCHANGED <<staffPollVars, adminVars>>

\* The cleanup of the latest effect, line 31, run when the calendar is taken
\* down.
CalendarUnmount ==
    /\ UNCHANGED <<staffVars, wizVars, checkInVars, restVars>>
    /\ ac_mounted /\ ac_interval = "armed"
    /\ ac_mounted' = FALSE
    /\ ac_interval' = clearInterval(ac_interval)
    /\ UNCHANGED <<ac_date, appointments, ac_loading, ac_captured, ac_fetches, srvAppointments>>
    /\ UNCHANGED <<staffPollVars, adminVars>>

\* A kiosk books or cancels the appointment of a day.
AppointmentsChange(day) ==
    /\ UNCHANGED <<staffVars, wizVars, checkInVars, restVars>>
    /\ srvAppointments' = IF day \in srvAppointments
                          THEN srvAppointments \ {day}
                          ELSE srvAppointments \cup {day}
    /\ UNCHANGED <<ac_mounted, ac_interval, ac_date, appointments, ac_loading, ac_captured, ac_fetches>>
    /\ UNCHANGED <<staffPollVars, adminVars>>

\* ------------------------------------------------------ initial states

\* useState initial values of WalkInForm, lines 248-262, before the mount effect.
WizardConstructed ==
    /\ mounted = TRUE
    /\ step = 1
    /\ mobile = <<>>
    /\ typedValue = <<>>
    /\ selectedService = NoService
    /\ isListening = FALSE
    /\ services = <<>>
    /\ loading = FALSE
    /\ error = ""
    /\ selectedDate = 1
    /\ selectedTimeSlot = Null
    /\ bookReqs = <<>>
    /\ bookIssued = 0
    /\ stoppedRecs = {}
    /\ completions = <<>>
    /\ zone = KioskZone

\* A wizard that takes no step: the service-session specifications leave it alone.
WizardAbsent ==
    /\ WizardConstructed
    /\ mode = "walk_in"
    /\ availableSlots = <<>>
    /\ loadsInFlight = 0

\* useState initial values of CheckInScreen, lines 6-8, and the timeout its
\* mount effect arms, lines 10-19.
CheckInConstructed ==
    /\ ck_mounted = TRUE
    /\ status = "scanning"
    /\ message = "Searching for appointment..."
    /\ details = NoDetails
    /\ scanTimer = TRUE
    /\ lookups = <<>>
    /\ lookupsIssued = 0
    /\ doneTimers = <<>>
    /\ ck_completions = <<>>

\* A check-in screen that takes no step: the other specifications leave it alone.
CheckInAbsent ==
    /\ CheckInConstructed
    /\ resetPending = FALSE

\* useState initial values of StaffPage and CurrentCustomer: part_000 lines
\* 8-9, CurrentCustomer.jsx line 8.
StaffConstructed ==
    /\ fetches = <<>>
    /\ queue = <<>>
    /\ currentCustomer = NoCustomer
    /\ lastData = NoData
    /\ cc_loading = FALSE
    /\ actionReqs = <<>>
    /\ lastOp = "mount"
    /\ sp_mounted = TRUE
    /\ sp_interval = "armed"
    /\ overtaken = 0
    /\ stale = FALSE
    /\ elapsedTime = Zero
    /\ cc_timer = NoTimer

\* useState initial values of AdminPage, lines 6-7, before its mount effect.
AdminConstructed ==
    /\ ad_interval = "unset"
    /\ ad_data = Null
    /\ ad_loading = TRUE
    /\ ad_fetches = <<>>

\* The router renders another page.
AdminAbsent ==
    /\ AdminConstructed
    /\ ad_mounted = FALSE
    /\ srvAnalytics = 1

\* useState initial values of AppointmentCalendar, lines 6-8, before its
\* effect.
CalendarConstructed ==
    /\ ac_interval = "unset"
    /\ ac_date = 1
    /\ appointments = <<>>
    /\ ac_loading = TRUE
    /\ ac_captured = <<>>
    /\ ac_fetches = <<>>

\* No calendar is rendered.
CalendarAbsent ==
    /\ CalendarConstructed
    /\ ac_mounted = FALSE
    /\ srvAppointments = {}

\* The ids of a queue of n entries: distinct, and listed in ascending order
\* from 1 or from 2, or in descending order down to 0.
IdOrders(n) == {[k \in 1..n |-> k], [k \in 1..n |-> k + 1], [k \in 1..n |-> n - k]}

\* The entries a snapshot may hold, anomalies included: any status, customers
\* waiting with or without a counter, service in progress at either counter or
\* at none.
AnyEntries(i) ==
    {Entry(i, s, c, Null) : s \in {"waiting", "checked_in"}, c \in {Null, 1}}
        \cup {Entry(i, "in_progress", c, 1) : c \in {Null, 1, 2}}
        \cup {Entry(i, "completed", 1, 1), Entry(i, "no_show", Null, Null)}

AnyQueues ==
    UNION {UNION {{q \in [1..n -> UNION {AnyEntries(ids[k]) : k \in 1..n}] :
                      \A k \in 1..n : q[k].id = ids[k]} : ids \in IdOrders(n)} :
           n \in 0..MaxQueue}

\* The queue of a branch before service starts: customers waiting or checked in.
OpenQueues ==
    UNION {{q \in [1..n -> {Entry(i, s, Null, Null) :
                                i \in 1..n, s \in {"waiting", "checked_in"}}] :
               \A k \in 1..n : q[k].id = k} : n \in 0..MaxCustomers}

\* ------------------------------------------------- reducer specification
InitDerive ==
    /\ CheckInAbsent
    /\ srvQueue \in AnyQueues
    /\ StaffConstructed
    /\ BarAbsent
    /\ KioskAbsent
    /\ AdminAbsent
    /\ CalendarAbsent
    /\ WizardAbsent

NextDerive ==
    \/ FetchQueueCall
    \/ \E i \in 1..MaxFetch : FetchQueueOk(i)
    \/ \E i \in 1..MaxFetch : FetchQueueFail(i)

SpecDerive == InitDerive /\ [][NextDerive]_vars

\* ----------------------------------------- service-session specification
InitStaff ==
    /\ CheckInAbsent
    /\ srvQueue \in OpenQueues
    /\ StaffConstructed
    /\ BarAbsent
    /\ KioskAbsent
    /\ AdminAbsent
    /\ CalendarAbsent
    /\ WizardAbsent

NextStaff ==
    \/ FetchQueueCall
    \/ \E i \in 1..MaxFetch : FetchQueueOk(i)
    \/ \E i \in 1..MaxFetch : FetchQueueFail(i)
    \/ \E a \in Actions : HandleAction(a)
    \/ \E i \in 1..MaxActionReqs : ActionAck(i)
    \/ \E i \in 1..MaxActionReqs : ActionFail(i)
    \/ ElapsedTick

SpecStaff == InitStaff /\ [][NextStaff]_vars

\* ------------------------------------------------- wizard specification
\* What customers say: a service by its spoken name, a service by its written
\* name, and words that name no service.
Transcripts == {<<"C", "c", " ", "d">>, <<"c", "_", "w">>, <<"d", " ", "c">>}

\* The wizard after its first render and mount effect, lines 264-280.
InitWizard ==
    /\ CheckInAbsent
    /\ srvQueue = <<>>
    /\ StaffConstructed
    /\ BarAbsent
    /\ KioskAbsent
    /\ AdminAbsent
    /\ CalendarAbsent
    /\ WizardConstructed
    /\ mode \in {"walk_in", "pre_book"}
    /\ loadsInFlight = 1
    /\ availableSlots \in IF mode = "pre_book" THEN [Slots -> BOOLEAN] ELSE {<<>>}

NextWizard ==
    \/ \E value \in MobileEdits : OnMobileChange(value)
    \/ NextStep
    \/ LoadServicesOk
    \/ LoadServicesFail
    \/ ToggleMic
    \/ \E t \in Transcripts : VoiceResult(t)
    \/ VoiceEnd
    \/ \E svcs \in {<<>>, Catalog}, t \in Transcripts : LateVoiceResult(svcs, t)
    \/ \E svcs \in {<<>>, Catalog} : LateVoiceEnd(svcs)
    \/ \E k \in 1..Len(Catalog) : ServiceTap(k)
    \/ \E slot \in Slots : SelectSlot(slot)
    \/ \E date \in Dates : ChangeDate(date)
    \/ Confirm
    \/ \E i \in 1..MaxBookReqs : BookOk(i)
    \/ \E i \in 1..MaxBookReqs : BookNegative(i)
    \/ \E i \in 1..MaxBookReqs : BookFail(i)
    \/ OnBack

SpecWizard == InitWizard /\ [][NextWizard]_vars

\* ---------------------------------------------- check-in specification
\* The check-in screen after its first render and mount effect, shown on a
\* kiosk that has or has not completed a flow in the ten seconds before.
InitCheckIn ==
    /\ srvQueue = <<>>
    /\ StaffConstructed
    /\ BarAbsent
    /\ KioskAbsent
    /\ AdminAbsent
    /\ CalendarAbsent
    /\ WizardAbsent
    /\ CheckInConstructed
    /\ resetPending \in BOOLEAN

NextCheckIn ==
    \/ ScanTimeout
    \/ \E value \in SubmittedValues : CheckInSubmit(value)
    \/ \E i \in 1..MaxLookupReqs, result \in PositiveResults : LookupOk(i, result)
    \/ \E i \in 1..MaxLookupReqs, msg \in NegativeMessages : LookupNegative(i, msg)
    \/ \E i \in 1..MaxLookupReqs : LookupFail(i)
    \/ TryAgain
    \/ CheckInBack
    \/ KioskReset
    \/ \E j \in 1..MaxLookups : DoneTimerFires(j)

SpecCheckIn == InitCheckIn /\ [][NextCheckIn]_vars

\* DoneTimerFires is a timeout: once armed it fires.
SpecCheckInLive ==
    SpecCheckIn /\ \A j \in 1..MaxLookups : WF_vars(DoneTimerFires(j))

\* ------------------------------------------------- voice specification
\* handleVoiceResult over the catalogs the service may answer and the
\* transcripts a recognition may deliver, from step 2 on.

\* Catalogs: the two services above; a service whose name holds two
\* underscores; and two services the same transcript can match.
VoiceCatalogs ==
    { Catalog,
      << [id |-> "C_D_W", name |-> <<"C", "_", "D", "_", "W">>] >>,
      << [id |-> "D", name |-> <<"D">>],
         [id |-> "Cash_Deposit", name |-> <<"C", "_", "D">>] >> }

\* Every transcript of up to MaxTranscript characters, and longer ones that
\* speak the three words of a name.
VoiceTranscripts ==
    SeqsUpTo(VoiceChars, MaxTranscript)
        \cup { <<"c", " ", "d", " ", "w">>, <<"C", "_", "d", "_", "W">>,
               <<"c", " ", "d", "_", "w">>, <<"c", "_", "d", " ", "w">>,
               <<"w", " ", "c", " ", "d", " ">> }

\* The wizard on step 2 (lines 448-456 passed with ten digits), the catalog
\* loaded (lines 266-269).
InitVoice ==
    /\ CheckInAbsent
    /\ srvQueue = <<>>
    /\ StaffConstructed
    /\ BarAbsent
    /\ KioskAbsent
    /\ AdminAbsent
    /\ CalendarAbsent
    /\ mode \in {"walk_in", "pre_book"}
    /\ mounted = TRUE
    /\ step = 2
    /\ mobile = [k \in 1..MobileLen |-> "9"]
    /\ typedValue = <<>>
    /\ selectedService = NoService
    /\ isListening = FALSE
    /\ services \in VoiceCatalogs
    /\ loading = FALSE
    /\ error = ""
    /\ selectedDate = 1
    /\ selectedTimeSlot = Null
    /\ availableSlots = IF mode = "pre_book" THEN [slot \in Slots |-> TRUE] ELSE <<>>
    /\ loadsInFlight = 0
    /\ bookReqs = <<>>
    /\ bookIssued = 0
    /\ stoppedRecs = {}
    /\ completions = <<>>
    /\ zone = KioskZone

NextVoice ==
    \/ ToggleMic
    \/ \E t \in VoiceTranscripts : VoiceResult(t)
    \/ VoiceEnd
    \/ \E i \in 1..MaxBookReqs : BookNegative(i)
    \/ \E i \in 1..MaxBookReqs : BookFail(i)

SpecVoice == InitVoice /\ [][NextVoice]_vars

\* ------------------------------------------------- kiosk specification
InitKiosk ==
    /\ CheckInAbsent
    /\ WizardAbsent
    /\ srvQueue = <<>>
    /\ StaffConstructed
    /\ BarAbsent
    /\ AdminAbsent
    /\ CalendarAbsent
    /\ KioskConstructed

NextKiosk ==
    \/ \E m \in Modes : onSelectMode(m)
    \/ KioskOnBack
    \/ FlowCommits
    \/ handleComplete
    \/ \E d \in 1..MaxCompletions : ResetFires(d)
    \/ ReturnHome

SpecKiosk == InitKiosk /\ [][NextKiosk]_vars

\* ------------------------------------------- performance specification
InitBar ==
    /\ CheckInAbsent
    /\ WizardAbsent
    /\ srvQueue = <<>>
    /\ StaffConstructed
    /\ AdminAbsent
    /\ CalendarAbsent
    /\ KioskAbsent
    /\ predictedTime \in 0..MaxPredicted
    /\ BarConstructed

NextBar == \E actual \in ElapsedTimes : BarRender(actual)

SpecBar == InitBar /\ [][NextBar]_vars

\* --------------------------------------------- scheduling specification
\* The wizard where a booking can be submitted, the catalog loaded and ten
\* digits entered: on step 2 in walk_in mode, on step 3 with a service chosen
\* in pre_book mode; the kiosk's clock is in any of the time zones.
InitSchedule ==
    /\ CheckInAbsent
    /\ srvQueue = <<>>
    /\ StaffConstructed
    /\ BarAbsent
    /\ KioskAbsent
    /\ AdminAbsent
    /\ CalendarAbsent
    /\ mode \in {"walk_in", "pre_book"}
    /\ mounted = TRUE
    /\ step = IF mode = "pre_book" THEN 3 ELSE 2
    /\ mobile = [k \in 1..MobileLen |-> "9"]
    /\ typedValue = <<>>
    /\ selectedService = IF mode = "pre_book" THEN Catalog[1].id ELSE NoService
    /\ isListening = FALSE
    /\ services = Catalog
    /\ loading = FALSE
    /\ error = ""
    /\ selectedDate = 1
    /\ selectedTimeSlot = Null
    /\ availableSlots \in IF mode = "pre_book" THEN [Slots -> BOOLEAN] ELSE {<<>>}
    /\ loadsInFlight = 0
    /\ bookReqs = <<>>
    /\ bookIssued = 0
    /\ stoppedRecs = {}
    /\ completions = <<>>
    /\ zone \in Zones

NextSchedule ==
    \/ \E k \in 1..Len(Catalog) : ServiceTap(k)
    \/ \E slot \in Slots : SelectSlot(slot)
    \/ \E date \in Dates : ChangeDate(date)
    \/ LoadServicesOk
    \/ LoadServicesFail
    \/ Confirm
    \/ \E i \in 1..MaxBookReqs : BookNegative(i)
    \/ \E i \in 1..MaxBookReqs : BookFail(i)

SpecSchedule == InitSchedule /\ [][NextSchedule]_vars

\* ------------------------------------------------ polling specification
Views == {"staff", "admin", "calendar"}

\* One polling view after its first render, before its effect ran; the other
\* two are not rendered.
InitPoll ==
    /\ CheckInAbsent
    /\ WizardAbsent
    /\ \E page \in Views :
        /\ sp_mounted = (page = "staff")
        /\ ad_mounted = (page = "admin")
        /\ ac_mounted = (page = "calendar")
    /\ srvQueue \in PollQueues
    /\ fetches = <<>>
    /\ queue = <<>>
    /\ currentCustomer = NoCustomer
    /\ lastData = NoData
    /\ cc_loading = FALSE
    /\ actionReqs = <<>>
    /\ lastOp = "render"
    /\ sp_interval = "unset"
    /\ overtaken = 0
    /\ stale = FALSE
    /\ elapsedTime = Zero
    /\ cc_timer = NoTimer
    /\ BarAbsent
    /\ KioskAbsent
    /\ AdminConstructed
    /\ srvAnalytics \in AnalyticsReports
    /\ CalendarConstructed
    /\ srvAppointments \in SUBSET CalDays

NextPoll ==
    \/ StaffMountEffect
    \/ PollTick
    \/ RefreshClick
    \/ \E i \in 1..MaxFetch : FetchQueueOk(i)
    \/ \E i \in 1..MaxFetch : FetchQueueFail(i)
    \/ StaffUnmount
    \/ QueueChange
    \/ ElapsedTick
    \/ AdminMountEffect
    \/ AnalyticsTick
    \/ \E i \in 1..MaxFetch : FetchAnalyticsOk(i)
    \/ \E i \in 1..MaxFetch : FetchAnalyticsFail(i)
    \/ AdminUnmount
    \/ AnalyticsChange
    \/ CalendarMountEffect
    \/ AppointmentsTick
    \/ \E days \in {-1, 1} : changeDate(days)
    \/ \E i \in 1..MaxFetch : FetchAppointmentsOk(i)
    \/ \E i \in 1..MaxFetch : FetchAppointmentsFail(i)
    \/ CalendarUnmount
    \/ \E day \in CalDays : AppointmentsChange(day)

SpecPoll == InitPoll /\ [][NextPoll]_vars

\* ====================================================================
\* Properties of the queue snapshot reducer (SpecDerive)
\* ====================================================================
Min(S) == CHOOSE x \in S : \A y \in S : x <= y

\* Positions of the snapshot holding service in progress at this counter.
MinePositions(data) ==
    {i \in 1..Len(data) : data[i].status = "in_progress"
                          /\ data[i].assigned_counter = CounterNumber}

\* Positions of the snapshot holding a customer waiting or checked in.
OpenPositions(data) ==
    {i \in 1..Len(data) : data[i].status \in {"waiting", "checked_in"}}

Ids(seq) == [k \in 1..Len(seq) |-> seq[k].id]

ScenarioA == <<Entry(1, "in_progress", 1, 1), Entry(2, "waiting", Null, Null),
               Entry(3, "checked_in", Null, Null)>>
ScenarioB == <<Entry(2, "waiting", Null, Null), Entry(3, "checked_in", Null, Null)>>

\* C1: whenever the applied snapshot holds an entry in progress at this counter,
\* the current customer is the first such entry in snapshot order, whatever
\* waiting or checked-in entries precede it; scenario A gives current 1 and
\* remaining [2, 3].
C1_InProgressIsCurrent ==
    lastData # NoData =>
        /\ MinePositions(lastData) # {} =>
               currentCustomer = lastData[Min(MinePositions(lastData))]
        /\ lastData = ScenarioA =>
               currentCustomer.id = 1 /\ Ids(queue) = <<2, 3>>

\* A snapshot with two entries in progress at this counter behind a waiting
\* one has been applied.
C1_Witness ==
    /\ lastData # NoData
    /\ Len(lastData) >= 3
    /\ lastData[1].status = "waiting"
    /\ Cardinality(MinePositions(lastData)) >= 2
    /\ currentCustomer.status = "in_progress"

\* C2: when the applied snapshot holds no entry in progress at this counter,
\* the current customer is the first waiting or checked-in entry in snapshot
\* order, and there is none when no such entry exists; scenario B gives
\* current 2 and remaining [3].
C2_FirstOpenIsCurrent ==
    (lastData # NoData /\ MinePositions(lastData) = {}) =>
        /\ IF OpenPositions(lastData) = {}
           THEN currentCustomer = NoCustomer
           ELSE currentCustomer = lastData[Min(OpenPositions(lastData))]
        /\ lastData = ScenarioB =>
               currentCustomer.id = 2 /\ Ids(queue) = <<3>>

\* A snapshot without service in progress at this counter, whose first open
\* entry is checked in, does not carry the lowest id and follows an entry in
\* progress at another counter, has been applied.
C2_Witness ==
    /\ lastData # NoData
    /\ MinePositions(lastData) = {}
    /\ Len(lastData) >= 3
    /\ lastData[1].status = "in_progress"
    /\ lastData[2].status = "checked_in"
    /\ lastData[3].status = "waiting"
    /\ lastData[3].id < lastData[2].id
    /\ currentCustomer = lastData[2]

\* C3: the remaining queue holds exactly the waiting and checked-in entries of
\* the applied snapshot whose id differs from the current customer's, in
\* snapshot order: never the current customer, never a completed, no-show or
\* in-progress entry.
C3_RemainingExact ==
    lastData # NoData =>
        /\ queue = SelectSeq(lastData,
                       LAMBDA q : q.status \in {"waiting", "checked_in"}
                                  /\ q.id # currentCustomer.id)
        /\ \A k \in 1..Len(queue) :
               /\ queue[k].id # currentCustomer.id
               /\ queue[k].status \notin {"completed", "no_show", "in_progress"}

\* A snapshot mixing every kind of entry left a current customer with id 0 and
\* a non-empty remaining queue.
C3_Witness ==
    /\ lastData # NoData
    /\ currentCustomer.id = 0
    /\ currentCustomer.status = "in_progress"
    /\ Len(queue) >= 1
    /\ \E k \in 1..Len(lastData) : lastData[k].status = "completed"

\* ====================================================================
\* Properties of the service-session controller (SpecStaff)
\* ====================================================================
\* The action a step dispatches, if it dispatches one.
Dispatches(action) ==
    /\ Len(actionReqs') = Len(actionReqs) + 1
    /\ actionReqs'[Len(actionReqs')].action = action

\* C4: what can be dispatched depends only on the entry held: nothing without
\* a current customer, start and no_show while its start_time is absent,
\* complete once it is present; so complete is never dispatched for an entry
\* whose start_time is absent, nor before a snapshot that shows the entry
\* started has been received.
C4_ActionsFollowHeldEntry ==
    [][\A action \in Actions : Dispatches(action) =>
          /\ currentCustomer # NoCustomer
          /\ actionReqs'[Len(actionReqs')].queue_id = currentCustomer.id
          /\ currentCustomer.start_time = Null => action \in {"start", "no_show"}
          /\ currentCustomer.start_time # Null => action = "complete"
          /\ action = "complete" =>
                \E k \in 1..Len(lastData) :
                    /\ lastData[k].id = currentCustomer.id
                    /\ lastData[k].start_time # Null]_vars

\* A complete request is in flight.
C4_Witness ==
    /\ lastOp = "HandleAction"
    /\ actionReqs # <<>>
    /\ actionReqs[Len(actionReqs)].action = "complete"

\* C5: at most one staff action request is in flight, and the busy flag is set
\* exactly while one is: it is set when the request is sent and cleared only
\* when the request resolves.
C5_OneActionInFlight ==
    /\ Len(actionReqs) <= 1
    /\ cc_loading <=> Len(actionReqs) = 1

\* A request is in flight while the customer held still shows its buttons.
C5_Witness ==
    /\ Len(actionReqs) = 1
    /\ cc_loading
    /\ Rendered(currentCustomer) # {}

\* C6: a failed staff action leaves the current customer, its started state
\* and the remaining queue as they were, triggers no refresh, sends no request
\* of its own, clears the busy flag, and leaves the action the held entry
\* offers open to the user again.
C6_FailureKeepsSession ==
    [][\A i \in 1..MaxActionReqs : ActionFail(i) =>
          /\ currentCustomer' = currentCustomer
          /\ isStarted(currentCustomer') = isStarted(currentCustomer)
          /\ queue' = queue
          /\ fetches' = fetches
          /\ srvQueue' = srvQueue
          /\ Len(actionReqs') = Len(actionReqs) - 1
          /\ cc_loading' = FALSE
          /\ actionReqs[i].action \in Rendered(currentCustomer) =>
                actionReqs[i].action \in Clickable(currentCustomer', cc_loading')]_vars

\* A staff action has just failed for a customer that is still held.
C6_Witness ==
    /\ lastOp = "ActionFail"
    /\ currentCustomer # NoCustomer
    /\ queue # <<>>
    /\ ~cc_loading

\* ====================================================================
\* Properties of the booking wizard (SpecWizard)
\* ====================================================================
TenDigits(str) == Len(str) = 10 /\ \A k \in 1..Len(str) : str[k] \in Digits

\* C7: across the service tap, the voice command and the confirm button, at
\* most one booking request of a wizard instance is outstanding at any time.
C7_OneBookingOutstanding ==
    Len(bookReqs) <= 1

\* C8: whenever a booking submission does not succeed (the request throws, or
\* the service answers success false) the wizard reports an error, stays on
\* its step, clears the busy flag and does not invoke the completion callback.
C8_FailureReported ==
    [][\A i \in 1..MaxBookReqs :
          (mounted /\ (BookNegative(i) \/ BookFail(i))) =>
              /\ error' # ""
              /\ step' = step
              /\ loading' = FALSE
              /\ completions' = completions
              /\ mounted']_vars

\* C9: a booking request that returns success hands its result to the
\* completion callback exactly once, and from then on the wizard instance
\* makes no step transition and issues no further booking request.
C9_TerminatesOnSuccess ==
    [][/\ \A i \in 1..MaxBookReqs :
             BookOk(i) => completions' = completions \o <<bookReqs[i]>>
       /\ completions # <<>> => (step' = step /\ bookIssued' = bookIssued)]_vars

\* C10: the wizard leaves step 1 only for step 2 and only with a stored mobile
\* of exactly 10 digits; pressing Next with any other mobile keeps step 1 and
\* sets the validation error; so at every step from 2 on, and in every booking
\* request issued, the mobile is exactly 10 digits.
C10_MobileGate ==
    [][/\ step # step' /\ step = 1 => (step' = 2 /\ TenDigits(mobile))
       /\ (NextStep /\ ~TenDigits(mobile)) =>
              (step' = 1 /\ error' = "Please enter a valid 10-digit mobile number")
       /\ step' >= 2 => TenDigits(mobile')
       /\ \A i \in 1..Len(bookReqs') : TenDigits(bookReqs'[i].mobile)]_vars

\* A booking request has been issued from step 2 or 3.
C10_Witness ==
    /\ step >= 2
    /\ bookReqs # <<>>
    /\ TenDigits(bookReqs[1].mobile)

\* C11: after any sequence of edits to the mobile field the stored mobile
\* consists of digits only and has at most ten of them: it is the first ten
\* digits of what the field last reported, so an input of eleven digits
\* never leaves an eleven-digit stored value.
C11_StoredMobileDigits ==
    /\ Len(mobile) <= 10
    /\ \A k \in 1..Len(mobile) : mobile[k] \in Digits
    /\ (step = 1 /\ mounted) =>
           Len(mobile) = Min({10, Cardinality({k \in 1..Len(typedValue) :
                                                   typedValue[k] \in Digits})})

\* The field reported eleven digits and ten are stored.
C11_Witness ==
    /\ Len(typedValue) = 11
    /\ \A k \in 1..11 : typedValue[k] \in Digits
    /\ Len(mobile) = 10

\* C12: the step only moves 1 -> 2 -> 3 and never backwards; step 3 is entered
\* only in pre_book mode and only from step 2; in walk_in mode the wizard never
\* reaches step 3 and a service tap on step 2 submits the booking for the
\* tapped service directly.
C12_StepsForward ==
    [][/\ step' # step => (step = 1 /\ step' = 2) \/ (step = 2 /\ step' = 3)
       /\ step' = 3 => mode = "pre_book" /\ step \in {2, 3}
       /\ mode = "walk_in" => step' \in {1, 2}
       /\ \A k \in 1..Len(services) :
             (ServiceTap(k) /\ mode = "walk_in") =>
                 /\ step' = 2
                 /\ bookIssued' = bookIssued + 1
                 /\ bookReqs'[Len(bookReqs')].service_type = services[k].id
                 /\ bookReqs'[Len(bookReqs')].booking_type = "walk_in"]_vars

\* A pre_book wizard has walked 1 -> 2 -> 3 with a service tapped.
C12_Witness ==
    /\ mode = "pre_book"
    /\ step = 3
    /\ selectedService # NoService
    /\ bookIssued = 0

\* C13: selectedTimeSlot is only ever set, in pre_book mode on step 3, to a
\* slot whose available flag is true at the moment of selection; a press on an
\* unavailable slot leaves selectedTimeSlot unchanged and sets no error.
C13_OnlyAvailableSlots ==
    [][/\ selectedTimeSlot' # selectedTimeSlot =>
              /\ mode = "pre_book" /\ step = 3
              /\ selectedTimeSlot' \in DOMAIN availableSlots
              /\ availableSlots[selectedTimeSlot']
       /\ \A slot \in DOMAIN availableSlots :
             (SelectSlot(slot) /\ ~availableSlots[slot]) =>
                 (selectedTimeSlot' = selectedTimeSlot /\ error' = error)]_vars

\* A slot is selected while another slot is offered as unavailable.
C13_Witness ==
    /\ mode = "pre_book" /\ step = 3
    /\ selectedTimeSlot # Null
    /\ availableSlots[selectedTimeSlot]
    /\ \E slot \in DOMAIN availableSlots : ~availableSlots[slot]

\* C14: in pre_book mode nothing issues a booking request or sets the busy
\* flag while no time slot is selected, a press on Confirm included; every
\* request issued in pre_book mode carries a service_type that is not null and
\* the scheduled time built from the selected date and the selected slot.
C14_NoSlotNoRequest ==
    [][/\ (mode = "pre_book" /\ selectedTimeSlot = Null) =>
              (bookReqs' = bookReqs /\ bookIssued' = bookIssued /\ ~loading')
       /\ (mode = "pre_book" /\ bookIssued' # bookIssued) =>
              LET req == bookReqs'[Len(bookReqs')]
              IN  /\ selectedTimeSlot \in Slots
                  /\ req.service_type \in {Catalog[k].id : k \in 1..Len(Catalog)}
                  /\ req.scheduled_time = <<selectedDate, selectedTimeSlot>>
                  /\ req.booking_type = "pre_booked"]_vars

\* A pre_book request is in flight, carrying a service and a scheduled time.
C14_Witness ==
    /\ mode = "pre_book"
    /\ bookReqs # <<>>
    /\ bookReqs[1].service_type # NoService
    /\ bookReqs[1].scheduled_time # <<>>
    /\ loading

\* ====================================================================
\* Properties of the voice command (SpecVoice)
\* ====================================================================
\* A name with its underscores replaced by spaces.
SpokenName(name) == [k \in 1..Len(name) |-> IF name[k] = "_" THEN " " ELSE name[k]]

\* The catalog positions a transcript names: compared without regard to case,
\* it contains the entry's name or the name with underscores as spaces.
Named(svcs, transcript) ==
    {k \in 1..Len(svcs) :
        \/ includes(toLowerCase(transcript), toLowerCase(svcs[k].name))
        \/ includes(toLowerCase(transcript), toLowerCase(SpokenName(svcs[k].name)))}

\* C15: a transcript selects a service exactly when, compared
\* case-insensitively, it contains some catalog entry's name or that name with
\* its underscores replaced by spaces; the first such entry in catalog order
\* becomes the selection, and in walk_in mode with a ten-digit mobile the
\* booking for it is submitted; a transcript naming no entry changes neither
\* selection, step nor error and issues no request.
C15_VoiceSelects ==
    [][\A t \in VoiceTranscripts :
          VoiceResult(t) =>
              IF Named(services, t) = {}
              THEN /\ selectedService' = selectedService
                   /\ step' = step
                   /\ error' = error
                   /\ bookIssued' = bookIssued
              ELSE /\ selectedService' = services[Min(Named(services, t))].id
                   /\ (mode = "walk_in" /\ TenDigits(mobile)) =>
                          /\ bookIssued' = bookIssued + 1
                          /\ bookReqs'[Len(bookReqs')].service_type = selectedService'
                   /\ mode # "walk_in" => bookIssued' = bookIssued]_vars

\* The claim of C15 read for catalogs whose names hold at most one
\* underscore, as the names of the icon table (lines 236-245) do: there the
\* first underscore is every underscore.
C15_HoldsForOneUnderscore ==
    [][\A t \in VoiceTranscripts :
          (/\ VoiceResult(t)
           /\ \A k \in 1..Len(services) :
                 Cardinality({j \in 1..Len(services[k].name) :
                                 services[k].name[j] = "_"}) <= 1) =>
              IF Named(services, t) = {}
              THEN /\ selectedService' = selectedService
                   /\ step' = step
                   /\ error' = error
                   /\ bookIssued' = bookIssued
              ELSE /\ selectedService' = services[Min(Named(services, t))].id
                   /\ (mode = "walk_in" /\ TenDigits(mobile)) =>
                          /\ bookIssued' = bookIssued + 1
                          /\ bookReqs'[Len(bookReqs')].service_type = selectedService'
                   /\ mode # "walk_in" => bookIssued' = bookIssued]_vars

\* ====================================================================
\* Late voice results (SpecWizard)
\* ====================================================================
\* C16: a voice result delivered after the wizard has left step 2 (a service
\* tap moved it to step 3, or the recognition was stopped on unmount) is not
\* processed: it changes neither the selected service nor the step and issues
\* no booking request.
C16_LateVoiceIgnored ==
    [][\A svcs \in {<<>>, Catalog}, t \in Transcripts :
          (LateVoiceResult(svcs, t) /\ (step # 2 \/ ~mounted)) =>
              /\ selectedService' = selectedService
              /\ step' = step
              /\ bookIssued' = bookIssued]_vars

\* ====================================================================
\* Properties of the check-in screen (SpecCheckIn)
\* ====================================================================
\* C17: a lookup answered with success false takes the mounted screen from
\* processing to error, showing the message the service supplied; it never
\* enters success and neither arms the completion timeout nor calls
\* onComplete.
C17_NegativeLookupIsError ==
    [][\A i \in 1..MaxLookupReqs, msg \in NegativeMessages :
          (ck_mounted /\ LookupNegative(i, msg)) =>
              /\ status = "processing"
              /\ status' = "error"
              /\ (msg # "" => message' = msg)
              /\ details' = details
              /\ doneTimers' = doneTimers
              /\ ck_completions' = ck_completions]_vars

\* Scenario D: the answer {success: false, message: "No appointment found"}
\* has been received.
C17_Witness ==
    /\ ck_mounted
    /\ status = "error"
    /\ message = "No appointment found"
    /\ lookups = <<>>
    /\ lookupsIssued = 1
    /\ doneTimers = <<>>
    /\ ck_completions = <<>>

\* C18: the screen goes from input to processing only when the submitted
\* value is a ten-digit mobile number; any other submission (shorter, or ten
\* characters that are not all digits) changes no state and sends no lookup.
C18_TenDigitsToVerify ==
    [][\A value \in SubmittedValues :
          CheckInSubmit(value) =>
              IF TenDigits(value)
              THEN status' = "processing"
              ELSE /\ status' = status
                   /\ message' = message
                   /\ lookups' = lookups
                   /\ lookupsIssued' = lookupsIssued]_vars

\* C19: every entry into processing sends exactly one lookup, a lookup is
\* sent by nothing else, and at most one lookup of an instance is outstanding
\* at any time: on a mounted screen exactly while it is processing.
C19_OneLookupPerVerify ==
    [][/\ (status # "processing" /\ status' = "processing") =>
              (lookupsIssued' = lookupsIssued + 1 /\ Len(lookups') = Len(lookups) + 1)
       /\ lookupsIssued' # lookupsIssued =>
              /\ status = "input" /\ status' = "processing"
              /\ lookupsIssued' = lookupsIssued + 1
       /\ Len(lookups') <= 1
       /\ ck_mounted' => (Len(lookups') = 1 <=> status' = "processing")]_vars

\* A second lookup is outstanding after a retry.
C19_Witness ==
    /\ ck_mounted
    /\ status = "processing"
    /\ Len(lookups) = 1
    /\ lookupsIssued = 2

\* C20: a positive lookup result takes the mounted screen to success and arms
\* one timeout, which hands that result to onComplete; onComplete is called
\* once per instance at most, and once success is entered it is called;
\* success is left for no other status.
C20_SuccessCompletesOnce ==
    /\ [][/\ \A i \in 1..MaxLookupReqs, result \in PositiveResults :
                ((ck_mounted /\ LookupOk(i, result)) =>
                    (/\ status' = "success"
                     /\ details' = result
                     /\ doneTimers' = <<result>>
                     /\ ck_completions' = <<>>))
           /\ (status = "success" => status' = "success")
           /\ (ck_completions' # ck_completions =>
                  (/\ doneTimers # <<>>
                   /\ ck_completions' = <<doneTimers[1]>>
                   /\ doneTimers' = <<>>))]_vars
    /\ [](Len(doneTimers) + Len(ck_completions) <= 1)
    /\ ((status = "success") ~> (ck_completions = <<details>>))

\* The result shown on the success status has been handed to onComplete.
C20_Witness ==
    /\ status = "success"
    /\ details \in PositiveResults
    /\ ck_completions = <<details>>
    /\ doneTimers = <<>>

\* C21: on a mounted check-in screen a negative lookup result and a thrown
\* lookup both lead to error; from error Try Again is always available and
\* leads to input, where a ten-digit mobile can be submitted again; once the
\* lookup has resolved the screen is not left on processing.
C21_ErrorPermitsRetry ==
    /\ [][/\ \A i \in 1..MaxLookupReqs :
                ((ck_mounted /\ (LookupFail(i) \/ \E msg \in NegativeMessages :
                                                    LookupNegative(i, msg))) =>
                    (status = "processing" /\ status' = "error" /\ lookups' = <<>>))
           /\ (TryAgain => (status = "error" /\ status' = "input"))
           /\ ((ck_mounted' /\ lookups' = <<>>) => status' # "processing")]_vars
    /\ []((ck_mounted /\ status = "error") => ENABLED TryAgain)
    /\ []((ck_mounted /\ status = "input" /\ lookupsIssued < MaxLookups) =>
              ENABLED CheckInSubmit([k \in 1..MobileLen |-> "9"]))

\* After a thrown lookup and Try Again the form is shown again.
C21_Witness ==
    /\ ck_mounted
    /\ status = "input"
    /\ message = "Check-in failed. Please try again."
    /\ lookupsIssued = 1
    /\ lookups = <<>>

\* C22: a check-in screen starts on scanning with its timeout armed and sends
\* no lookup while scanning; the timeout, when it fires, takes the mounted
\* screen from scanning to input; a screen torn down before that has its
\* timeout cancelled, and its status stays scanning for good.
C22_ScanThenInput ==
    /\ [](status = "scanning" => (lookupsIssued = 0 /\ lookups = <<>>))
    /\ []((ck_mounted /\ status = "scanning") <=> scanTimer)
    /\ [][/\ (ScanTimeout =>
                  (ck_mounted /\ status = "scanning" /\ status' = "input"
                   /\ lookups' = <<>>))
           /\ (~ck_mounted => (status' = status /\ ~scanTimer'))]_vars

\* The screen was torn down while scanning: the timeout is no longer armed.
C22_Witness ==
    /\ ~ck_mounted
    /\ status = "scanning"
    /\ ~scanTimer
    /\ lookupsIssued = 0

C25_PollingSchedule ==
    /\ []((sp_interval = "unset" => fetches = <<>>)
          /\ (ad_interval = "unset" => ad_fetches = <<>>)
          /\ (ac_interval = "unset" => ac_fetches = <<>>))
    /\ []((~sp_mounted => sp_interval # "armed")
          /\ (~ad_mounted => ad_interval # "armed")
          /\ (~ac_mounted => ac_interval # "armed"))
    /\ []((sp_interval = "cleared" => (~ENABLED PollTick /\ clearInterval(sp_interval) = sp_interval))
          /\ (ad_interval = "cleared" =>
                  (~ENABLED AnalyticsTick /\ clearInterval(ad_interval) = ad_interval))
          /\ (ac_interval = "cleared" =>
                  (~ENABLED AppointmentsTick /\ clearInterval(ac_interval) = ac_interval)))
    /\ [][/\ (StaffMountEffect => (fetches' = <<srvQueue>> /\ sp_interval' = "armed"))
          /\ (AdminMountEffect => (ad_fetches' = <<srvAnalytics>> /\ ad_interval' = "armed"))
          /\ (CalendarMountEffect =>
                  (ac_fetches' = <<AppointmentsOf(srvAppointments, ac_date)>>
                   /\ ac_interval' = "armed"))
          /\ (PollTick => (sp_mounted /\ fetches' = Append2(fetches, srvQueue)))
          /\ (AnalyticsTick => (ad_mounted /\ ad_fetches' = Append2(ad_fetches, srvAnalytics)))
          /\ (AppointmentsTick =>
                  (ac_mounted
                   /\ ac_fetches' = Append2(ac_fetches, AppointmentsOf(srvAppointments, ac_date))))
          /\ (StaffUnmount =>
                  (sp_interval' = "cleared" /\ UNCHANGED <<adminVars, calendarVars, fetches>>))
          /\ (AdminUnmount =>
                  (ad_interval' = "cleared"
                   /\ UNCHANGED <<sp_interval, calendarVars, ad_fetches>>))
          /\ (CalendarUnmount =>
                  (ac_interval' = "cleared"
                   /\ UNCHANGED <<sp_interval, adminVars, ac_fetches>>))
          /\ (sp_interval = "cleared" => sp_interval' = "cleared")
          /\ (ad_interval = "cleared" => ad_interval' = "cleared")
          /\ (ac_interval = "cleared" => ac_interval' = "cleared")]_vars

\* AdminPage was taken down after its effect's request and one tick's request
\* were sent; both are still outstanding.
C25_Witness ==
    /\ ~ad_mounted
    /\ ad_interval = "cleared"
    /\ Len(ad_fetches) = 2
    /\ ad_data = Null

\* C26: a tick of an armed interval can fire while earlier calls are still
\* unanswered; the calls in flight can be answered in any order; whichever
\* successful response arrives sets the snapshot of its mounted view, also when
\* the response of a later call was already shown, so the snapshot always is
\* the payload of the response that arrived last.
C26_LastArrivalWins ==
    /\ []((sp_interval = "armed" /\ Len(fetches) \in 1..(MaxFetch - 1)) => ENABLED PollTick)
    /\ []((ad_interval = "armed" /\ Len(ad_fetches) \in 1..(MaxFetch - 1)) =>
              ENABLED AnalyticsTick)
    /\ []((ac_interval = "armed" /\ Len(ac_fetches) \in 1..(MaxFetch - 1)) =>
              ENABLED AppointmentsTick)
    /\ [](/\ \A i \in 1..Len(fetches) : ENABLED FetchQueueOk(i)
          /\ \A i \in 1..Len(ad_fetches) : ENABLED FetchAnalyticsOk(i)
          /\ \A i \in 1..Len(ac_fetches) : ENABLED FetchAppointmentsOk(i))
    /\ [](lastData # NoData =>
              (currentCustomer = current(lastData, CounterNumber)
               /\ queue = remainingQueue(lastData, CounterNumber)))
    /\ [][\A i \in 1..MaxFetch :
            /\ ((sp_mounted /\ FetchQueueOk(i)) => lastData' = fetches[i])
            /\ ((ad_mounted /\ FetchAnalyticsOk(i)) => ad_data' = ad_fetches[i])
            /\ ((ac_mounted /\ FetchAppointmentsOk(i)) => appointments' = ac_fetches[i])]_vars

\* The mounted StaffPage shows the response of a call made before another call
\* whose response it showed first; the queue it shows is not the one the
\* service holds.
C26_Witness ==
    /\ sp_mounted
    /\ stale
    /\ lastOp = "FetchQueueOk"
    /\ fetches = <<>>
    /\ lastData # srvQueue

\* ====================================================================
\* Completion after teardown (SpecCheckIn)
\* ====================================================================
\* C27: a booking wizard or check-in screen that was torn down hands nothing to
\* its completion callback any more: no step of a torn-down instance adds to
\* the results it handed over.
C27_NoCompletionAfterTeardown ==
    [][/\ (~ck_mounted => ck_completions' = ck_completions)
       /\ (~mounted => completions' = completions)]_vars

\* ====================================================================
\* The elapsed time of the customer being served (SpecStaff)
\* ====================================================================
\* C28: the elapsed time displayed is that of the current customer: 0 when
\* there is no current customer or the customer has no start_time, otherwise 0
\* or a value computed from the current customer's own start_time, never one
\* computed for another customer; the only interval that can be live is the one
\* of the current customer, and none is live once the page is taken down.
C28_ElapsedOfCurrent ==
    /\ [](shownElapsed(currentCustomer, elapsedTime)
              \in {Zero, ElapsedSince(currentCustomer.id)})
    /\ [](~isStarted(currentCustomer) => shownElapsed(currentCustomer, elapsedTime) = Zero)
    /\ [](cc_timer \in {NoTimer, TimerOf(currentCustomer.id)})
    /\ [](~sp_mounted => cc_timer = NoTimer)

\* ====================================================================
\* Snapshots with several entries in progress at one counter (SpecDerive)
\* ====================================================================
\* The snapshot without the entries in progress at this counter that follow
\* the first one.
WithoutSurplus(data) ==
    LET first == data[Min(MinePositions(data))].id
        keep(q) == ~(q.status = "in_progress" /\ q.assigned_counter = CounterNumber)
                   \/ q.id = first
    IN  SelectSeq(data, keep)

\* C29: when the applied snapshot holds two or more entries in progress at this
\* counter, the view is derived all the same, the current customer is the
\* first of them in snapshot order, and the state the view is left in reports
\* the anomaly: it differs from the state the same snapshot without the
\* surplus entries leaves.
C29_AnomalyReported ==
    [](Cardinality(MinePositions(lastData)) >= 2 =>
          /\ currentCustomer = lastData[Min(MinePositions(lastData))]
          /\ queue = remainingQueue(lastData, CounterNumber)
          /\ <<currentCustomer, queue>> #
                 <<current(WithoutSurplus(lastData), CounterNumber),
                   remainingQueue(WithoutSurplus(lastData), CounterNumber)>>)

\* ====================================================================
\* Requests for the service catalog (SpecWizard)
\* ====================================================================
\* C30: a wizard instance requests the service catalog once, from its mount
\* effect: after it no step, a change of the date included, sends another
\* request for the catalog.
C30_CatalogRequestedOnce ==
    [][loadsInFlight' <= loadsInFlight]_vars

\* ====================================================================
\* The scheduled time of a booking (SpecSchedule)
\* ====================================================================
\* C31: whatever the time zone of the kiosk, the scheduled_time of a request
\* issued in pre_book mode is the selected date and the selected slot as they
\* are displayed, and a request issued in walk_in mode carries no scheduled
\* time.
C31_ScheduledTimeAsDisplayed ==
    [][bookIssued' # bookIssued =>
          LET req == bookReqs'[Len(bookReqs')]
          IN  IF mode = "pre_book"
              THEN selectedTimeSlot \in Slots
                   /\ req.scheduled_time = <<selectedDate, selectedTimeSlot>>
              ELSE req.scheduled_time = <<>>]_vars

\* A pre_book request for the second day is in flight on a kiosk whose zone is
\* behind UTC and puts its clocks forward in the night before that day's slots.
C31_Witness ==
    /\ mode = "pre_book"
    /\ zone = [std |-> 0 - 10, gaps |-> {48 * 2 + 4}]
    /\ bookReqs # <<>>
    /\ bookReqs[1].scheduled_time = <<2, NumSlots>>

C33_ActionThenRefresh ==
    [][/\ (Len(actionReqs') > Len(actionReqs) =>
              /\ lastOp' = "HandleAction"
              /\ \E a \in Actions :
                    actionReqs' = Append2(actionReqs,
                        [queue_id |-> currentCustomer.id, action |-> a,
                         counter_number |-> CounterNumber, staff_id |-> StaffId])
              /\ fetches' = fetches)
       /\ ((lastOp' = "ActionAck" /\ actionReqs' # actionReqs) =>
              /\ Len(actionReqs') = Len(actionReqs) - 1
              /\ Len(fetches') = Len(fetches) + 1
              /\ fetches'[Len(fetches')] = srvQueue')
       /\ ((currentCustomer' # currentCustomer \/ queue' # queue) =>
              /\ lastOp' = "FetchQueueOk"
              /\ \E i \in 1..Len(fetches) :
                    /\ fetches' = RemoveAt(fetches, i)
                    /\ currentCustomer' = deriveView(fetches[i], CounterNumber).current
                    /\ queue' = deriveView(fetches[i], CounterNumber).remaining)]_vars

\* A start was acknowledged and its refresh delivered: the entry held is in
\* progress and nothing is in flight.
C33_Witness ==
    /\ lastOp = "FetchQueueOk"
    /\ actionReqs = <<>>
    /\ fetches = <<>>
    /\ currentCustomer # NoCustomer
    /\ currentCustomer.status = "in_progress"
    /\ currentCustomer = current(srvQueue, CounterNumber)

\* ====================================================================
\* Service selection when booking ahead (SpecWizard)
\* ====================================================================
\* C34: in pre_book mode no booking request is issued from step 2: a service
\* tap records the service and moves to step 3; a voice command that names a
\* service records it, stays on step 2 and submits nothing (no request, no
\* processing overlay, no message of handleBookSlot).
C34_PreBookSelectsOnly ==
    [][mode = "pre_book" =>
          /\ (bookIssued' # bookIssued => (step = 3 /\ step' = 3))
          /\ ((step = 2 /\ step' # 2) =>
                 /\ step' = 3
                 /\ \E k \in 1..Len(services) : selectedService' = services[k].id
                 /\ bookReqs' = bookReqs)
          /\ ((step = 2 /\ step' = 2 /\ selectedService' # selectedService) =>
                 /\ \E k \in 1..Len(Catalog) : selectedService' = Catalog[k].id
                 /\ bookReqs' = bookReqs
                 /\ loading' = loading
                 /\ error' = error)]_vars

\* A service was spoken on step 2 when booking ahead: it is recorded, the
\* wizard is on step 2 still and has sent nothing.
C34_Witness ==
    /\ mode = "pre_book"
    /\ mounted
    /\ step = 2
    /\ selectedService # NoService
    /\ ~isListening
    /\ bookIssued = 0
    /\ ~loading

\* ====================================================================
\* The kiosk page and its reset timeout (SpecKiosk)
\* ====================================================================
\* C35: the timeout set by one completion returns the page to welcome from
\* that completion's success screen only: when it fires while the page shows
\* anything else (a flow started since, or a newer success screen), it changes
\* neither the view nor the success data.
C35_ResetOwnSuccessOnly ==
    [][\A d \in resetTimers :
          (d \notin resetTimers' /\ ~(view = "success" /\ successData = d)) =>
              (view' = view /\ successData' = successData)]_vars

\* C38: every view a button of the welcome screen leads to is one the page
\* renders a controller for, and in every view but welcome some press or
\* timeout that leads back to welcome is possible; with the success view the
\* success data is present.
C38_EveryViewHasExit ==
    /\ view \in RenderedViews
    /\ (view # "welcome" => ENABLED (NextKiosk /\ view' = "welcome"))
    /\ (view = "success" => successData # Null)

\* ====================================================================
\* Actions between acknowledgement and refresh (SpecStaff)
\* ====================================================================
\* C36: once a staff action is acknowledged, no action is dispatched before
\* the snapshot of the refresh it called has arrived: the step that follows
\* an acknowledgement, its refresh still in flight, dispatches nothing.
C36_NoDispatchBeforeRefresh ==
    [][(lastOp = "ActionAck" /\ fetches # <<>>) =>
            Len(actionReqs') <= Len(actionReqs)]_vars

\* ====================================================================
\* The slot submitted and the list displayed (SpecSchedule)
\* ====================================================================
\* C37: when booking ahead, the slot a request is issued for is flagged
\* available in the list displayed at that moment; a slot selected is
\* available in the list displayed, also after a change of date has drawn the
\* availability anew.
C37_SubmittedSlotAvailable ==
    /\ [][(mode = "pre_book" /\ bookIssued' # bookIssued) =>
              /\ selectedTimeSlot \in DOMAIN availableSlots
              /\ availableSlots[selectedTimeSlot]]_vars
    /\ []((mode = "pre_book" /\ selectedTimeSlot # Null) =>
              /\ selectedTimeSlot \in DOMAIN availableSlots
              /\ availableSlots[selectedTimeSlot])

\* ====================================================================
\* The calendar after a change of date (SpecPoll)
\* ====================================================================
\* C39: the list the calendar displays is never replaced by the response to a
\* request made for a date selected before: every list a response puts on
\* display holds appointments of the date selected at that moment only.
C39_ListOfSelectedDate ==
    [][(Len(ac_fetches') < Len(ac_fetches) /\ appointments' # appointments) =>
            \A k \in 1..Len(appointments') : appointments'[k].day = ac_date]_vars

\* ====================================================================
\* The same snapshot at two counters (SpecDerive)
\* ====================================================================
\* C40: when the view of the applied snapshot is derived for this counter and
\* for another one, and the snapshot holds no entry in progress at either, the
\* two are not given the same waiting or checked_in entry as current.
C40_CountersGetDistinctEntries ==
    LET other == CounterNumber + 1
        mine == deriveView(lastData, CounterNumber).current
        theirs == deriveView(lastData, other).current
    IN  (/\ lastData # NoData
         /\ myCustomer(lastData, CounterNumber) = NoCustomer
         /\ myCustomer(lastData, other) = NoCustomer
         /\ mine # NoCustomer) => mine.id # theirs.id

====
